---- MODULE Spec2Model ----
(***************************************************************************)
(* QuickRDP (src-tauri/src/lib.rs): the credential-resolution and session  *)
(* launch pipeline (launch_rdp), the Windows credential store wrappers,    *)
(* the hosts.csv inventory and the LDAP directory scan (scan_domain_ldap). *)
(*                                                                         *)
(* Text is modelled as a sequence of one-character strings, so that the    *)
(* splitting, joining, wide-character encoding and decoding of the code    *)
(* are computed and not assumed.  Hostnames and descriptions, which the    *)
(* code only copies and compares, are TLA+ strings.                        *)
(***************************************************************************)
EXTENDS Integers, Sequences, FiniteSets, TLC

VARIABLES
    store,      \* Windows Credential Manager: target name -> entry
    files,      \* <APPDATA>\QuickRDP\Connections\<hostname>.rdp -> content
    hostsCsv,   \* hosts.csv: [exists, rows], rows[1] is the header row
    recent,     \* recent_connections.json: [exists, corrupt, connections]
    now,        \* the system clock, in seconds
    scn,        \* the scenario explored: [hosts], the host records in use
    lpc,        \* launch_rdp: position in the handler
    lHost,      \* launch_rdp: the host argument
    lCreds,     \* launch_rdp: `credentials`
    lSource,    \* launch_rdp: which match arm produced `credentials`
    lIdent,     \* launch_rdp: (domain, username)
    lResult,    \* launch_rdp: the value returned
    lCalls,     \* launch_rdp: the platform calls that write or open, in order
    lLog,       \* launch_rdp: debug_log calls of level WARN or ERROR
    lPre,       \* the shared state when launch_rdp was entered
    lPrev,      \* the previous completed launch_rdp call
    spc,        \* scan_domain_ldap: position in the handler
    sArgs,      \* scan_domain_ldap: (domain, server)
    sTrace,     \* scan_domain_ldap: what happened on the LDAP session, in order
    sCreds,     \* scan_domain_ldap: `credentials`
    sEntries,   \* scan_domain_ldap: `rs`, the search result entries
    sHosts,     \* scan_domain_ldap: `hosts`, the mapped entries
    sNext,      \* scan_domain_ldap: index of the next record to write
    sResult,    \* scan_domain_ldap: the value returned, [kind, count]
    sLog,       \* scan_domain_ldap: debug_log calls of level WARN or ERROR
    sPre,       \* the inventory file when scan_domain_ldap was entered
    ppc,        \* identity parse harness: position
    pLogin,     \* identity parse harness: the login string
    pOut,       \* identity parse harness: the (domain, username) computed
    hpc,        \* function harness: position
    hIn,        \* function harness: the arguments
    hOut        \* function harness: the value computed

sharedVars == <<store, files, hostsCsv, recent, now, scn>>
launchVars == <<lpc, lHost, lCreds, lSource, lIdent, lResult, lCalls,
                lLog, lPre, lPrev>>
scanVars   == <<spc, sArgs, sTrace, sCreds, sEntries, sHosts, sNext, sResult,
                sLog, sPre>>
parseVars  == <<ppc, pLogin, pOut, hpc, hIn, hOut>>
vars       == <<sharedVars, launchVars, scanVars, parseVars>>

(***************************************************************************)
(* Bounds of the model                                                     *)
(***************************************************************************)
MaxLoginLen == 3    \* longest login string of the identity-parse harness
MaxEntries  == 2    \* most entries in one LDAP search result
MaxRealmLen == 5    \* longest realm string of the base-DN harness
MaxSecretLen == 2   \* longest secret of the credential round-trip harness

(***************************************************************************)
(* Text                                                                    *)
(***************************************************************************)
NUL == "NUL"        \* the zero code unit
BSL == "\\"
AT  == "@"

Contains(s, c) == \E i \in 1..Len(s) : s[i] = c

FirstIndex(s, c) == CHOOSE i \in 1..Len(s) : s[i] = c /\ \A j \in 1..(i - 1) : s[j] # c

\* str::splitn(2, c): at most two parts, cut at the first c
SplitN2(s, c) ==
    IF Contains(s, c)
    THEN <<SubSeq(s, 1, FirstIndex(s, c) - 1), SubSeq(s, FirstIndex(s, c) + 1, Len(s))>>
    ELSE <<s>>

\* OsStr::encode_wide().chain(once(0)): the code units and a terminating zero
EncodeWide(s) == Append(s, NUL)

\* PWSTR::to_string, and the platform reading a PWSTR: up to the first zero
PwstrToString(w) ==
    IF Contains(w, NUL) THEN SubSeq(w, 1, FirstIndex(w, NUL) - 1) ELSE w

\* str::trim_end_matches('\0')
RECURSIVE TrimEndNul(_)
TrimEndNul(s) ==
    IF Len(s) > 0 /\ s[Len(s)] = NUL THEN TrimEndNul(SubSeq(s, 1, Len(s) - 1)) ELSE s

(***************************************************************************)
(* Identity parse (launch_rdp) and the TERMSRV account name                *)
(***************************************************************************)
ParseLoginAtFirst(login) ==
    IF Contains(login, AT)
    THEN LET parts == SplitN2(login, AT)
         IN  IF Len(parts) = 2 THEN <<parts[2], parts[1]>> ELSE <<<<>>, login>>
    ELSE IF Contains(login, BSL)
    THEN LET parts == SplitN2(login, BSL)
         IN  IF Len(parts) = 2 THEN <<parts[1], parts[2]>> ELSE <<<<>>, login>>
    ELSE <<<<>>, login>>

\* (domain, username) of a stored account name
ParseLogin(login) ==
    IF Contains(login, BSL)
    THEN LET parts == SplitN2(login, BSL)
         IN  IF Len(parts) = 2 THEN <<parts[1], parts[2]>> ELSE <<<<>>, login>>
    ELSE IF Contains(login, AT)
    THEN LET parts == SplitN2(login, AT)
         IN  IF Len(parts) = 2 THEN <<parts[2], parts[1]>> ELSE <<<<>>, login>>
    ELSE <<<<>>, login>>

TermsrvUsernameBare(domain, username) == username

\* termsrv_username: DOMAIN\username, or the bare username
TermsrvUsername(domain, username) ==
    IF domain # <<>> THEN domain \o <<BSL>> \o username ELSE username

(***************************************************************************)
(* Credential store                                                        *)
(***************************************************************************)
Hostnames == {"srv1", "srv2"}
Descriptions == {"", "web"}

GlobalKey == "QuickRDP"
TermsrvKey(hostname) == "TERMSRV/" \o hostname
Keys == {GlobalKey} \cup {TermsrvKey(h) : h \in Hostnames}

NoEntry == [present |-> FALSE, username |-> <<>>, blob |-> <<>>]

\* CredWriteW: UserName is read up to its terminator, the blob by its byte size
CredWrite(st, key, username, password) ==
    [st EXCEPT ![key] = [present  |-> TRUE,
                         username |-> PwstrToString(EncodeWide(username)),
                         blob     |-> EncodeWide(password)]]

CredDelete(st, key) == [st EXCEPT ![key] = NoEntry]

\* CredentialBlobSize, in bytes
BlobSize(entry) == 2 * Len(entry.blob)

NoCreds == [some |-> FALSE, username |-> <<>>, password |-> <<>>]

\* The Ok(_) arm of CredReadW in get_stored_credentials / get_host_credentials
DecodeEntry(entry) ==
    [some |-> TRUE, username |-> entry.username, password |-> TrimEndNul(entry.blob)]

get_stored_credentials(st) ==
    IF st[GlobalKey].present THEN DecodeEntry(st[GlobalKey]) ELSE NoCreds

get_host_credentials_global(st, hostname) == get_stored_credentials(st)

get_host_credentials(st, hostname) ==
    IF st[TermsrvKey(hostname)].present
    THEN DecodeEntry(st[TermsrvKey(hostname)])
    ELSE NoCreds

(***************************************************************************)
(* Connection artifact (launch_rdp)                                        *)
(***************************************************************************)
\* A hostname is copied into the document whole
HostnameText(hostname) == <<hostname>>

\* One "key:type:value\r\n" line of the document
Directive(key, type, value) == [key |-> key, type |-> type, value |-> value, eol |-> "\r\n"]

\* rdp_content: the format! template and its three arguments
RdpTemplate(hostname, username, domain) ==
    <<
      Directive("screen mode id", "i", <<"2">>),
      Directive("desktopwidth", "i", <<"1920">>),
      Directive("desktopheight", "i", <<"1080">>),
      Directive("session bpp", "i", <<"32">>),
      Directive("full address", "s", HostnameText(hostname)),
      Directive("compression", "i", <<"1">>),
      Directive("keyboardhook", "i", <<"2">>),
      Directive("audiocapturemode", "i", <<"1">>),
      Directive("videoplaybackmode", "i", <<"1">>),
      Directive("connection type", "i", <<"2">>),
      Directive("networkautodetect", "i", <<"1">>),
      Directive("bandwidthautodetect", "i", <<"1">>),
      Directive("enableworkspacereconnect", "i", <<"1">>),
      Directive("disable wallpaper", "i", <<"0">>),
      Directive("allow desktop composition", "i", <<"0">>),
      Directive("allow font smoothing", "i", <<"0">>),
      Directive("disable full window drag", "i", <<"1">>),
      Directive("disable menu anims", "i", <<"1">>),
      Directive("disable themes", "i", <<"0">>),
      Directive("disable cursor setting", "i", <<"0">>),
      Directive("bitmapcachepersistenable", "i", <<"1">>),
      Directive("audiomode", "i", <<"0">>),
      Directive("redirectprinters", "i", <<"1">>),
      Directive("redirectcomports", "i", <<"0">>),
      Directive("redirectsmartcards", "i", <<"1">>),
      Directive("redirectclipboard", "i", <<"1">>),
      Directive("redirectposdevices", "i", <<"0">>),
      Directive("autoreconnection enabled", "i", <<"1">>),
      Directive("authentication level", "i", <<"2">>),
      Directive("prompt for credentials", "i", <<"0">>),
      Directive("negotiate security layer", "i", <<"1">>),
      Directive("remoteapplicationmode", "i", <<"0">>),
      Directive("alternate shell", "s", <<>>),
      Directive("shell working directory", "s", <<>>),
      Directive("gatewayhostname", "s", <<>>),
      Directive("gatewayusagemethod", "i", <<"4">>),
      Directive("gatewaycredentialssource", "i", <<"4">>),
      Directive("gatewayprofileusagemethod", "i", <<"0">>),
      Directive("promptcredentialonce", "i", <<"1">>),
      Directive("use redirection server name", "i", <<"0">>),
      Directive("rdgiskdcproxy", "i", <<"0">>),
      Directive("kdcproxyname", "s", <<>>),
      Directive("username", "s", username),
      Directive("domain", "s", domain),
      Directive("enablecredsspsupport", "i", <<"1">>),
      Directive("public mode", "i", <<"0">>),
      Directive("cert ignore", "i", <<"1">>)
    >>

RdpContentWithSecret(hostname, username, domain, password) ==
    Append(RdpTemplate(hostname, username, domain), Directive("password 51", "b", password))

RdpContentSwapped(hostname, username, domain, password) ==
    RdpTemplate(hostname, domain, username)

\* What launch_rdp writes: `credentials.password` is in scope at the format!
\* call and is not one of its arguments
RdpContent(hostname, username, domain, password) ==
    RdpTemplate(hostname, username, domain)

NoFile == [exists |-> FALSE, content |-> <<>>]

FsWriteAppend(old, content) == [exists |-> TRUE, content |-> old.content \o content]

\* std::fs::write: create or truncate, then write the whole buffer
FsWrite(old, content) == [exists |-> TRUE, content |-> content]

\* The values of the directives named key, in document order
DirectiveValues(content, key) ==
    LET hits == SelectSeq(content, LAMBDA d : d.key = key)
    IN  [i \in 1..Len(hits) |-> hits[i].value]

(***************************************************************************)
(* Host inventory: hosts.csv                                               *)
(***************************************************************************)
Header2 == <<"hostname", "description">>
Header3 == <<"hostname", "description", "last_connected">>

NoCsv == [exists |-> FALSE, rows |-> <<>>]

\* chrono::Local::now().format("%d/%m/%Y %H:%M:%S")
Timestamp(t) == "T" \o ToString(t)

\* csv::Reader with has_headers(true), not flexible: the first row is the header
\* and a record of another length than the header is an error
get_hosts(csv) ==
    IF ~csv.exists \/ Len(csv.rows) = 0
    THEN [ok |-> TRUE, hosts |-> <<>>]
    ELSE LET records == Tail(csv.rows)
             kept    == SelectSeq(records, LAMBDA r : Len(r) >= 2)
         IN  IF \E i \in 1..Len(records) : Len(records[i]) # Len(csv.rows[1])
             THEN [ok |-> FALSE, hosts |-> <<>>]
             ELSE [ok |-> TRUE,
                   hosts |-> [i \in 1..Len(kept) |->
                       [hostname       |-> kept[i][1],
                        description    |-> kept[i][2],
                        last_connected |-> IF Len(kept[i]) >= 3 /\ kept[i][3] # ""
                                           THEN <<kept[i][3]>> ELSE <<>>]]]

\* Option<String>::unwrap_or_default
UnwrapOrDefault(opt) == IF opt = <<>> THEN "" ELSE opt[1]

\* The rows save_host, delete_host and update_last_connected write
Rows3(hosts) ==
    <<Header3>> \o [i \in 1..Len(hosts) |->
        <<hosts[i].hostname, hosts[i].description, UnwrapOrDefault(hosts[i].last_connected)>>]

\* update_last_connected: the first host named `hostname` gets the timestamp
MarkConnected(hosts, hostname, timestamp) ==
    LET idx == CHOOSE i \in 1..Len(hosts) :
                   hosts[i].hostname = hostname /\ \A j \in 1..(i - 1) : hosts[j].hostname # hostname
    IN  [hosts EXCEPT ![idx].last_connected = <<timestamp>>]

(***************************************************************************)
(* Recent connections: recent_connections.json                             *)
(***************************************************************************)
RecentLimit == 5

NoRecent == [exists |-> FALSE, corrupt |-> FALSE, connections |-> <<>>]

\* add_connection without the retain step
add_connectionKeepOld(connections, hostname, description, timestamp) ==
    LET inserted == <<[hostname |-> hostname, description |-> description,
                       timestamp |-> timestamp]>> \o connections
    IN  IF Len(inserted) > RecentLimit THEN SubSeq(inserted, 1, RecentLimit) ELSE inserted

\* RecentConnections::add_connection
add_connection(connections, hostname, description, timestamp) ==
    LET retained == SelectSeq(connections, LAMBDA c : c.hostname # hostname)
        inserted == <<[hostname |-> hostname, description |-> description,
                       timestamp |-> timestamp]>> \o retained
    IN  IF Len(inserted) > RecentLimit THEN SubSeq(inserted, 1, RecentLimit) ELSE inserted

(***************************************************************************)
(* Inputs                                                                  *)
(***************************************************************************)
\* Login strings typed by the user: empty, bare, DOMAIN\user, user@domain
Logins == {<<>>, <<"u">>, <<"d", BSL, "u">>, <<"u", AT, "d">>}
Secrets == {<<"p">>, <<"q">>}

\* ShellExecuteW status codes: at or below 32 is a failure
ShellThreshold == 32
ShellCodes == {0, 2, ShellThreshold, ShellThreshold + 1, 42}

OpenFailedBelow(code) == code < ShellThreshold

\* if result.0 as i32 <= 32 { .. return Err(error) }; the status codes of the
\* model are within the range of i32, where the cast keeps the value
OpenFailed(code) == code <= ShellThreshold

RdpFileName(hostname) == hostname \o ".rdp"
RdpFiles == {RdpFileName(h) : h \in Hostnames}

\* Host records the front end passes to the commands
HostRecords == {[hostname |-> "srv1", description |-> "web"],
                [hostname |-> "srv2", description |-> ""]}

EmptyStore == [k \in Keys |-> NoEntry]
EmptyFiles == [f \in RdpFiles |-> NoFile]

(***************************************************************************)
(* launch_rdp                                                              *)
(***************************************************************************)
NoHost == [hostname |-> "", description |-> ""]
NoPre  == [store |-> EmptyStore, files |-> EmptyFiles, hostsCsv |-> NoCsv, recent |-> NoRecent]
NoPrev == [valid |-> FALSE, hostname |-> "", writes |-> 0]

LaunchIdle ==
    /\ lpc = "idle" /\ lHost = NoHost /\ lCreds = NoCreds /\ lSource = "none"
    /\ lIdent = <<<<>>, <<>>>> /\ lResult = "none" /\ lCalls = <<>>
    /\ lLog = <<>> /\ lPre = NoPre

NoArgs   == [domain |-> <<>>, server |-> ""]
NoResult == [kind |-> "none", count |-> 0]

ScanIdle ==
    /\ spc = "idle" /\ sArgs = NoArgs /\ sTrace = <<>> /\ sCreds = NoCreds
    /\ sEntries = <<>> /\ sHosts = <<>> /\ sNext = 0 /\ sResult = NoResult /\ sLog = <<>>
    /\ sPre = NoCsv

HarnessIdle == hpc = "off" /\ hIn = <<>> /\ hOut = <<>>

ParseIdle == ppc = "off" /\ pLogin = <<>> /\ pOut = <<<<>>, <<>>>> /\ HarnessIdle

\* No handler is running: handlers of this specification run one at a time
Quiet == lpc = "idle" /\ spc = "idle"

\* One platform call: CredWriteW, fs::write, ShellExecuteW, or a write of a
\* bookkeeping file; code is the status ShellExecuteW returned, else 0
Call(op, target, ok, code) == [op |-> op, target |-> target, ok |-> ok, code |-> code]

CallsOf(calls, op) == SelectSeq(calls, LAMBDA c : c.op = op)

\* return Err(error) after debug_log("ERROR", "RDP_LAUNCH", ...)
LaunchFail(error) ==
    /\ lResult' = error
    /\ lLog' = Append(lLog, <<"ERROR", "RDP_LAUNCH">>)
    /\ lpc' = "done"

\* The command is invoked with a host record
LaunchStart ==
    \E host \in scn.hosts :
        /\ Quiet
        /\ lHost' = host
        /\ lPre' = [store |-> store, files |-> files, hostsCsv |-> hostsCsv, recent |-> recent]
        /\ lpc' = "read_host"
        /\ UNCHANGED <<lCreds, lSource, lIdent, lResult, lCalls, lLog, lPrev>>
        /\ UNCHANGED <<sharedVars, scanVars, parseVars>>

\* match get_host_credentials(host.hostname).await?
LaunchReadHost ==
    /\ lpc = "read_host"
    /\ LET c == get_host_credentials(store, lHost.hostname)
       IN  IF c.some
           THEN lCreds' = c /\ lSource' = "host" /\ lpc' = "parse"
           ELSE lpc' = "read_global" /\ UNCHANGED <<lCreds, lSource>>
    /\ UNCHANGED <<lHost, lIdent, lResult, lCalls, lLog, lPre, lPrev>>
    /\ UNCHANGED <<sharedVars, scanVars, parseVars>>

LaunchReadGlobalUnchecked ==
    /\ lpc = "read_global"
    /\ lCreds' = [get_stored_credentials(store) EXCEPT !.some = TRUE]
    /\ lSource' = "global" /\ lpc' = "parse"
    /\ UNCHANGED <<lHost, lIdent, lResult, lCalls, lLog, lPre, lPrev>>
    /\ UNCHANGED <<sharedVars, scanVars, parseVars>>

\* None => match get_stored_credentials().await?
LaunchReadGlobal ==
    /\ lpc = "read_global"
    /\ LET c == get_stored_credentials(store)
       IN  IF c.some
           THEN /\ lCreds' = c /\ lSource' = "global" /\ lpc' = "parse"
                /\ UNCHANGED <<lResult, lLog>>
           ELSE /\ LaunchFail("ErrNoCredentials")
                /\ UNCHANGED <<lCreds, lSource>>
    /\ UNCHANGED <<lHost, lIdent, lCalls, lPre, lPrev>>
    /\ UNCHANGED <<sharedVars, scanVars, parseVars>>

NeedsProvisionAlways(st, hostname) == TRUE

\* if get_host_credentials(host.hostname.clone()).await?.is_none()
NeedsProvision(st, hostname) == ~get_host_credentials(st, hostname).some

\* let (domain, username) = ...; if get_host_credentials(..).await?.is_none()
LaunchCheckHost ==
    /\ lpc = "parse"
    /\ lIdent' = ParseLogin(lCreds.username)
    /\ lpc' = IF NeedsProvision(store, lHost.hostname) THEN "provision" ELSE "write_file"
    /\ UNCHANGED <<lHost, lCreds, lSource, lResult, lCalls, lLog, lPre, lPrev>>
    /\ UNCHANGED <<sharedVars, scanVars, parseVars>>

LaunchProvisionLenient ==
    /\ lpc = "provision"
    /\ \E ok \in BOOLEAN :
        /\ lCalls' = Append(lCalls, Call("CredWriteW", TermsrvKey(lHost.hostname), ok, 0))
        /\ IF ok
           THEN /\ store' = CredWrite(store, TermsrvKey(lHost.hostname),
                                      TermsrvUsername(lIdent[1], lIdent[2]), lCreds.password)
                /\ lpc' = "write_file"
                /\ UNCHANGED <<lResult, lLog>>
           ELSE /\ lpc' = "write_file"
                /\ UNCHANGED <<store, lResult, lLog>>
    /\ UNCHANGED <<lHost, lCreds, lSource, lIdent, lPre, lPrev>>
    /\ UNCHANGED <<files, hostsCsv, recent, now, scn, scanVars, parseVars>>

\* CredWriteW of TERMSRV/<hostname> with the recombined account name
LaunchProvision ==
    /\ lpc = "provision"
    /\ \E ok \in BOOLEAN :
        /\ lCalls' = Append(lCalls, Call("CredWriteW", TermsrvKey(lHost.hostname), ok, 0))
        /\ IF ok
           THEN /\ store' = CredWrite(store, TermsrvKey(lHost.hostname),
                                      TermsrvUsername(lIdent[1], lIdent[2]), lCreds.password)
                /\ lpc' = "write_file"
                /\ UNCHANGED <<lResult, lLog>>
           ELSE /\ LaunchFail("ErrSaveRdpCredentials")
                /\ UNCHANGED store
    /\ UNCHANGED <<lHost, lCreds, lSource, lIdent, lPre, lPrev>>
    /\ UNCHANGED <<files, hostsCsv, recent, now, scn, scanVars, parseVars>>

\* APPDATA, create_dir_all, then std::fs::write(&rdp_path, rdp_content)
LaunchWriteFile ==
    /\ lpc = "write_file"
    /\ \E outcome \in {"ok", "no_appdata", "mkdir_failed", "create_failed", "write_failed"} :
        LET f == RdpFileName(lHost.hostname)
        IN  CASE outcome = "ok" ->
                   /\ files' = [files EXCEPT ![f] = FsWrite(@,
                          RdpContent(lHost.hostname, lIdent[2], lIdent[1], lCreds.password))]
                   /\ lCalls' = Append(lCalls, Call("fs_write", f, TRUE, 0))
                   /\ lpc' = "open"
                   /\ UNCHANGED <<lResult, lLog>>
              [] outcome = "no_appdata" ->
                   \* map_err(..)?: returned without a debug_log call
                   /\ lResult' = "ErrAppData" /\ lpc' = "done"
                   /\ UNCHANGED <<files, lLog, lCalls>>
              [] outcome = "mkdir_failed" ->
                   /\ lResult' = "ErrCreateDir" /\ lpc' = "done"
                   /\ UNCHANGED <<files, lLog, lCalls>>
              [] outcome = "create_failed" ->
                   /\ LaunchFail("ErrWriteRdpFile")
                   /\ lCalls' = Append(lCalls, Call("fs_write", f, FALSE, 0))
                   /\ UNCHANGED files
              [] outcome = "write_failed" ->
                   \* the file was created or truncated and the write failed
                   /\ LaunchFail("ErrWriteRdpFile")
                   /\ lCalls' = Append(lCalls, Call("fs_write", f, FALSE, 0))
                   /\ files' = [files EXCEPT ![f] = FsWrite(@, <<>>)]
    /\ UNCHANGED <<lHost, lCreds, lSource, lIdent, lPre, lPrev>>
    /\ UNCHANGED <<store, hostsCsv, recent, now, scn, scanVars, parseVars>>

\* ShellExecuteW("open", rdp_path); a result at or below 32 is an error
LaunchOpen ==
    /\ lpc = "open"
    /\ \E code \in ShellCodes :
        /\ lCalls' = Append(lCalls, Call("ShellExecuteW", RdpFileName(lHost.hostname),
                                         code > ShellThreshold, code))
        /\ IF OpenFailed(code)
           THEN LaunchFail("ErrOpen")
           ELSE lpc' = "recent" /\ UNCHANGED <<lResult, lLog>>
    /\ UNCHANGED <<lHost, lCreds, lSource, lIdent, lPre, lPrev>>
    /\ UNCHANGED <<sharedVars, scanVars, parseVars>>

\* if let Ok(mut recent) = load_recent_connections() { add_connection; let _ = save }
LaunchRecent ==
    /\ lpc = "recent"
    /\ \E loaded \in BOOLEAN, saved \in {"ok", "create_failed", "write_failed"} :
        /\ recent.corrupt => ~loaded
        /\ IF loaded
           THEN LET conns == add_connection(IF recent.exists THEN recent.connections ELSE <<>>,
                                            lHost.hostname, lHost.description, now)
                IN  /\ lCalls' = lCalls \o
                           <<Call("load_recent", "recent_connections.json", TRUE, 0),
                             Call("save_recent", "recent_connections.json", saved = "ok", 0)>>
                    /\ CASE saved = "ok" ->
                           recent' = [exists |-> TRUE, corrupt |-> FALSE, connections |-> conns]
                         [] saved = "create_failed" -> UNCHANGED recent
                         [] saved = "write_failed" ->
                           recent' = [exists |-> TRUE, corrupt |-> TRUE, connections |-> <<>>]
           ELSE /\ saved = "ok"
                /\ lCalls' = Append(lCalls, Call("load_recent", "recent_connections.json",
                                                 FALSE, 0))
                /\ UNCHANGED recent
    /\ lpc' = "update_last"
    /\ UNCHANGED <<lHost, lCreds, lSource, lIdent, lResult, lLog, lPre, lPrev>>
    /\ UNCHANGED <<store, files, hostsCsv, now, scn, scanVars, parseVars>>

\* update_last_connected(hostname): the new hosts.csv and whether it returned Ok
UpdateLastConnected(csv, hostname, timestamp, outcome, cut) ==
    LET gh == get_hosts(csv)
    IN  IF outcome = "read_failed" \/ ~gh.ok
             \/ ~\E i \in 1..Len(gh.hosts) : gh.hosts[i].hostname = hostname
        THEN [ok |-> FALSE, wrote |-> FALSE, csv |-> csv]
        ELSE LET rows == Rows3(MarkConnected(gh.hosts, hostname, timestamp))
             IN  CASE outcome = "ok" ->
                        [ok |-> TRUE, wrote |-> TRUE, csv |-> [exists |-> TRUE, rows |-> rows]]
                   [] outcome = "create_failed" -> [ok |-> FALSE, wrote |-> TRUE, csv |-> csv]
                   [] outcome = "write_failed" ->
                        [ok |-> FALSE, wrote |-> TRUE,
                         csv |-> [exists |-> TRUE,
                                  rows |-> SubSeq(rows, 1, IF cut < Len(rows) THEN cut ELSE 0)]]

LaunchUpdateLastFatal ==
    /\ lpc = "update_last"
    /\ \E outcome \in {"ok", "read_failed", "create_failed", "write_failed"}, cut \in 0..1 :
        LET r == UpdateLastConnected(hostsCsv, lHost.hostname, Timestamp(now), outcome, cut)
        IN  /\ hostsCsv' = r.csv
            /\ lCalls' = lCalls \o
                   <<Call("update_last_connected", lHost.hostname, r.ok, 0)>> \o
                   (IF r.wrote THEN <<Call("csv_write", "hosts.csv", r.ok, 0)>> ELSE <<>>)
            /\ lLog' = IF r.ok THEN lLog ELSE Append(lLog, <<"WARN", "RDP_LAUNCH">>)
    /\ lResult' = IF lLog' = lLog THEN "Ok" ELSE "ErrUpdateLastConnected"
    /\ lpc' = "done"
    /\ UNCHANGED <<lHost, lCreds, lSource, lIdent, lPre, lPrev>>
    /\ UNCHANGED <<store, files, recent, now, scn, scanVars, parseVars>>

\* if let Err(e) = update_last_connected(&host.hostname) { debug_log("WARN", ..) }; Ok(())
LaunchUpdateLast ==
    /\ lpc = "update_last"
    /\ \E outcome \in {"ok", "read_failed", "create_failed", "write_failed"}, cut \in 0..1 :
        LET r == UpdateLastConnected(hostsCsv, lHost.hostname, Timestamp(now), outcome, cut)
        IN  /\ hostsCsv' = r.csv
            /\ lCalls' = lCalls \o
                   <<Call("update_last_connected", lHost.hostname, r.ok, 0)>> \o
                   (IF r.wrote THEN <<Call("csv_write", "hosts.csv", r.ok, 0)>> ELSE <<>>)
            /\ lLog' = IF r.ok THEN lLog ELSE Append(lLog, <<"WARN", "RDP_LAUNCH">>)
    /\ lResult' = "Ok"
    /\ lpc' = "done"
    /\ UNCHANGED <<lHost, lCreds, lSource, lIdent, lPre, lPrev>>
    /\ UNCHANGED <<store, files, recent, now, scn, scanVars, parseVars>>

\* The command has returned; the next command may start
LaunchReturn ==
    /\ lpc = "done"
    /\ lPrev' = [valid |-> TRUE, hostname |-> lHost.hostname,
                 writes |-> Len(SelectSeq(lCalls, LAMBDA c : c.op = "CredWriteW" /\ c.ok))]
    /\ lpc' = "idle" /\ lHost' = NoHost /\ lCreds' = NoCreds /\ lSource' = "none"
    /\ lIdent' = <<<<>>, <<>>>> /\ lResult' = "none" /\ lCalls' = <<>>
    /\ lLog' = <<>> /\ lPre' = NoPre
    /\ UNCHANGED <<sharedVars, scanVars, parseVars>>

(***************************************************************************)
(* The other commands on the credential store                              *)
(***************************************************************************)
\* save_credentials: an empty username is refused, CredWriteW may fail
SaveCredentials ==
    \E login \in Logins, secret \in Secrets, ok \in BOOLEAN :
        /\ store' = IF login # <<>> /\ ok
                    THEN CredWrite(store, GlobalKey, login, secret) ELSE store
        /\ lPrev' = IF store' # store THEN NoPrev ELSE lPrev
        /\ UNCHANGED <<lpc, lHost, lCreds, lSource, lIdent, lResult, lCalls, lLog, lPre>>
        /\ UNCHANGED <<files, hostsCsv, recent, now, scn, scanVars, parseVars>>

\* save_host_credentials: the account part of the login goes to TERMSRV/<hostname>
HostUsername(login) ==
    IF Contains(login, BSL)
    THEN LET parts == SplitN2(login, BSL) IN IF Len(parts) = 2 THEN parts[2] ELSE login
    ELSE IF Contains(login, AT)
    THEN LET parts == SplitN2(login, AT) IN IF Len(parts) = 2 THEN parts[1] ELSE login
    ELSE login

SaveHostCredentials ==
    \E host \in scn.hosts, login \in Logins, secret \in Secrets, ok \in BOOLEAN :
        /\ store' = IF ok
                    THEN CredWrite(store, TermsrvKey(host.hostname), HostUsername(login), secret)
                    ELSE store
        /\ lPrev' = IF store' # store THEN NoPrev ELSE lPrev
        /\ UNCHANGED <<lpc, lHost, lCreds, lSource, lIdent, lResult, lCalls, lLog, lPre>>
        /\ UNCHANGED <<files, hostsCsv, recent, now, scn, scanVars, parseVars>>

\* delete_credentials: CredDeleteW of the global entry; an absent entry is an error
DeleteCredentials ==
    \E ok \in BOOLEAN :
        /\ store' = IF ok THEN CredDelete(store, GlobalKey) ELSE store
        /\ lPrev' = IF store' # store THEN NoPrev ELSE lPrev
        /\ UNCHANGED <<lpc, lHost, lCreds, lSource, lIdent, lResult, lCalls, lLog, lPre>>
        /\ UNCHANGED <<files, hostsCsv, recent, now, scn, scanVars, parseVars>>

\* delete_all_hosts: hosts.csv becomes the two-column header alone
ClearedCsv == [exists |-> TRUE, rows |-> <<Header2>>]

\* reset_application: every step is attempted whatever the earlier ones did.
\* failKeys and failFiles are the deletions the platform refuses (deleting
\* what does not exist fails by itself and changes nothing).
ResetApplication ==
    \E failKeys \in SUBSET {k \in Keys : store[k].present},
       failFiles \in SUBSET {f \in RdpFiles : files[f].exists},
       enumOk \in BOOLEAN, appdata \in BOOLEAN, hostsOk \in BOOLEAN, recentOk \in BOOLEAN :
        LET afterGlobal == IF GlobalKey \in failKeys THEN store ELSE CredDelete(store, GlobalKey)
            found == {k \in Keys \ {GlobalKey} : afterGlobal[k].present}
            afterSweep == IF enumOk /\ found # {}
                          THEN [k \in Keys |-> IF k \in found \ failKeys
                                               THEN NoEntry ELSE afterGlobal[k]]
                          ELSE afterGlobal
        IN  /\ store' = afterSweep
            /\ files' = IF appdata
                        THEN [f \in RdpFiles |-> IF f \in failFiles THEN files[f] ELSE NoFile]
                        ELSE files
            /\ hostsCsv' = IF hostsOk THEN ClearedCsv ELSE hostsCsv
            /\ recent' = IF appdata /\ recent.exists /\ recentOk THEN NoRecent ELSE recent
            /\ lPrev' = IF store' # store THEN NoPrev ELSE lPrev
            /\ UNCHANGED <<lpc, lHost, lCreds, lSource, lIdent, lResult, lCalls, lLog, lPre>>
            /\ UNCHANGED <<now, scn, scanVars, parseVars>>

(***************************************************************************)
(* Specification of the launch pipeline: the commands run one at a time    *)
(***************************************************************************)
Inventory1 == [exists |-> TRUE, rows |-> <<Header3, <<"srv1", "web", "">>>>]

Init ==
    /\ store = EmptyStore /\ files = EmptyFiles
    /\ hostsCsv = Inventory1 /\ recent = NoRecent /\ now = 0
    /\ scn = [hosts |-> {h \in HostRecords : h.hostname = "srv1"}]
    /\ LaunchIdle /\ lPrev = NoPrev
    /\ ScanIdle /\ ParseIdle

Next ==
    \/ LaunchStart \/ LaunchReadHost \/ LaunchReadGlobal \/ LaunchCheckHost
    \/ LaunchProvision \/ LaunchWriteFile \/ LaunchOpen \/ LaunchRecent
    \/ LaunchUpdateLast \/ LaunchReturn
    \/ (Quiet /\ SaveCredentials)
    \/ (Quiet /\ SaveHostCredentials)
    \/ (Quiet /\ DeleteCredentials)
    \/ (Quiet /\ ResetApplication)

Spec == Init /\ [][Next]_vars

(***************************************************************************)
(* The launch pipeline with save_host_credentials and reset_application    *)
(* running concurrently: the async commands are separate tasks of the      *)
(* runtime and nothing serialises them.  The other commands are taken      *)
(* before the launch and between its credential steps (the two reads of    *)
(* TERMSRV/h and the provisioning write); one launch per behaviour.        *)
(***************************************************************************)
CredentialSteps == lpc \in {"idle", "read_host", "read_global", "parse", "provision"}

NextRace ==
    \/ LaunchStart \/ LaunchReadHost \/ LaunchReadGlobal \/ LaunchCheckHost
    \/ LaunchProvision \/ LaunchWriteFile \/ LaunchOpen \/ LaunchRecent
    \/ LaunchUpdateLast
    \/ (Quiet /\ SaveCredentials)
    \/ (CredentialSteps /\ SaveHostCredentials)
    \/ (CredentialSteps /\ ResetApplication)

SpecRace == Init /\ [][NextRace]_vars

(***************************************************************************)
(* One launch among two hosts: the other host has its own store entry, its *)
(* own artifact and its own inventory row                                  *)
(***************************************************************************)
FrameStores ==
    LET g(st)  == CredWrite(st, GlobalKey, <<"u", AT, "d">>, <<"p">>)
        h1(st) == CredWrite(st, TermsrvKey("srv1"), <<"d", BSL, "v">>, <<"q">>)
        h2(st) == CredWrite(st, TermsrvKey("srv2"), <<"w">>, <<"q">>)
    IN  {EmptyStore, g(EmptyStore), h2(g(EmptyStore)), h2(h1(EmptyStore)),
         h2(h1(g(EmptyStore)))}

FrameFiles ==
    {EmptyFiles,
     [f \in RdpFiles |-> FsWrite(NoFile, RdpContent("srv2", <<"w">>, <<>>, <<"q">>))]}

FrameInventories ==
    {[exists |-> TRUE, rows |-> <<Header3, <<"srv1", "web", "">>, <<"srv2", "", "T9">>>>],
     [exists |-> TRUE, rows |-> <<Header2, <<"srv2", "db">>, <<"srv1", "web">>>>],
     [exists |-> TRUE, rows |-> <<Header3, <<"srv2", "", "T9">>>>]}

InitFrame ==
    /\ store \in FrameStores
    /\ files \in FrameFiles
    /\ hostsCsv \in FrameInventories
    /\ recent = NoRecent /\ now = 0
    /\ scn = [hosts |-> HostRecords]
    /\ LaunchIdle /\ lPrev = NoPrev
    /\ ScanIdle /\ ParseIdle

NextFrame ==
    \/ LaunchStart \/ LaunchReadHost \/ LaunchReadGlobal \/ LaunchCheckHost
    \/ LaunchProvision \/ LaunchWriteFile \/ LaunchOpen \/ LaunchRecent
    \/ LaunchUpdateLast

SpecFrame == InitFrame /\ [][NextFrame]_vars

(***************************************************************************)
(* Identity parse harness: launch_rdp's parse applied to one login string  *)
(***************************************************************************)
ParseAlphabet == {BSL, AT, "a", "b"}

RECURSIVE StringsUpTo(_, _)
StringsUpTo(alphabet, n) ==
    IF n = 0 THEN {<<>>}
    ELSE LET shorter == StringsUpTo(alphabet, n - 1)
         IN  shorter \cup {Append(w, c) : w \in shorter, c \in alphabet}

ParseStart ==
    /\ ppc = "ready"
    /\ pOut' = ParseLogin(pLogin)
    /\ ppc' = "parsed"
    /\ UNCHANGED <<pLogin, hpc, hIn, hOut, sharedVars, launchVars, scanVars>>

InitParse ==
    /\ store = EmptyStore /\ files = EmptyFiles
    /\ hostsCsv = NoCsv /\ recent = NoRecent /\ now = 0
    /\ scn = [hosts |-> {}]
    /\ LaunchIdle /\ lPrev = NoPrev
    /\ ScanIdle
    /\ ppc = "ready" /\ pLogin \in StringsUpTo(ParseAlphabet, MaxLoginLen) /\ pOut = <<<<>>, <<>>>>
    /\ HarnessIdle

NextParse == ParseStart

SpecParse == InitParse /\ [][NextParse]_vars

(***************************************************************************)
(* The commands on the host inventory                                      *)
(***************************************************************************)
\* Host records the front end passes to save_host
HostArgs == {[hostname |-> "srv1", description |-> "web", last_connected |-> <<"T0">>],
             [hostname |-> "srv1", description |-> "", last_connected |-> <<>>],
             [hostname |-> "old1", description |-> "old", last_connected |-> <<"T0">>],
             [hostname |-> " ", description |-> "", last_connected |-> <<>>]}

\* str::trim().is_empty() of a hostname
TrimIsEmpty(hostname) == hostname \in {"", " "}

\* save_host: update the first host of that name, or push
Upsert(hosts, host) ==
    IF \E i \in 1..Len(hosts) : hosts[i].hostname = host.hostname
    THEN LET idx == CHOOSE i \in 1..Len(hosts) :
                        /\ hosts[i].hostname = host.hostname
                        /\ \A j \in 1..(i - 1) : hosts[j].hostname # host.hostname
         IN  [hosts EXCEPT ![idx] = host]
    ELSE Append(hosts, host)

\* save_host: hosts.csv is created with a two-column header when missing, then
\* read, then the hostname is checked, then the file is rewritten
SaveHost ==
    \E host \in HostArgs, outcome \in {"ok", "create_failed", "write_failed"} :
        LET created == IF hostsCsv.exists THEN hostsCsv
                       ELSE [exists |-> TRUE, rows |-> <<Header2>>]
            gh == get_hosts(created)
        IN  /\ hostsCsv' =
                 IF ~gh.ok \/ TrimIsEmpty(host.hostname) \/ outcome = "create_failed"
                 THEN created
                 ELSE IF outcome = "write_failed"
                 THEN [exists |-> TRUE, rows |-> <<>>]
                 ELSE [exists |-> TRUE, rows |-> Rows3(Upsert(gh.hosts, host))]
            /\ UNCHANGED <<store, files, recent, now, scn, launchVars, scanVars, parseVars>>

\* delete_host: every host of that name is dropped and the file rewritten
DeleteHost ==
    \E hostname \in {h.hostname : h \in HostArgs},
       outcome \in {"ok", "create_failed", "write_failed"} :
        LET gh == get_hosts(hostsCsv)
        IN  /\ hostsCsv' =
                 IF ~gh.ok \/ outcome = "create_failed"
                 THEN hostsCsv
                 ELSE IF outcome = "write_failed"
                 THEN [exists |-> TRUE, rows |-> <<>>]
                 ELSE [exists |-> TRUE,
                       rows |-> Rows3(SelectSeq(gh.hosts, LAMBDA h : h.hostname # hostname))]
            /\ UNCHANGED <<store, files, recent, now, scn, launchVars, scanVars, parseVars>>

\* delete_all_hosts: std::fs::write("hosts.csv", "hostname,description\n")
DeleteAllHosts ==
    \E ok \in BOOLEAN :
        /\ hostsCsv' = IF ok THEN ClearedCsv ELSE hostsCsv
        /\ UNCHANGED <<store, files, recent, now, scn, launchVars, scanVars, parseVars>>

(***************************************************************************)
(* scan_domain_ldap                                                        *)
(***************************************************************************)
\* Arguments of the scan command
ScanDomains == {<<>>, <<"c", ".", "e">>}
ScanServers == {"", "dc1"}

\* Search result entries as SearchEntry::construct gives them: attrs maps each
\* attribute the entry carries to its values.  An attribute can come with no
\* value (the protocol allows an empty value set).
EntryKinds ==
    {[operatingSystem |-> <<"Windows Server 2022">>],
     [dNSHostName |-> <<>>, description |-> <<"web">>],
     [dNSHostName |-> <<"srv1">>, description |-> <<"web">>],
     [dNSHostName |-> <<"srv1">>],
     [dNSHostName |-> <<"srv2">>, description |-> <<>>],
     [dNSHostName |-> <<"srv3", "srv1">>, description |-> <<"db", "x">>]}

RECURSIVE ListsUpTo(_, _)
ListsUpTo(kinds, n) ==
    IF n = 0 THEN {<<>>}
    ELSE LET shorter == ListsUpTo(kinds, n - 1)
         IN  shorter \cup {Append(l, e) : l \in shorter, e \in kinds}

\* attrs.get(name)
HasAttr(entry, name) == name \in DOMAIN entry

\* if let Some(hostname_values) = attrs.get("dNSHostName")
\*     { if let Some(hostname) = hostname_values.first() { hosts.push(..) } }
Mapped(entry) == HasAttr(entry, "dNSHostName") /\ Len(entry["dNSHostName"]) > 0

\* attrs.get("description").and_then(|v| v.first()).unwrap_or_default()
DescriptionOf(entry) ==
    IF HasAttr(entry, "description") /\ Len(entry["description"]) > 0
    THEN entry["description"][1] ELSE ""

HostOf(entry) ==
    [hostname |-> entry["dNSHostName"][1], description |-> DescriptionOf(entry),
     last_connected |-> <<>>]

\* for entry in rs { .. }: the hosts pushed, in result order
RECURSIVE MapEntries(_)
MapEntries(entries) ==
    IF entries = <<>> THEN <<>>
    ELSE LET rest == MapEntries(Tail(entries))
         IN  IF Mapped(Head(entries)) THEN <<HostOf(Head(entries))>> \o rest ELSE rest

\* for entry in rs { .. }: the debug_log("WARN", "LDAP_SEARCH", ..) calls made
RECURSIVE MapWarnings(_)
MapWarnings(entries) ==
    IF entries = <<>> THEN <<>>
    ELSE LET rest == MapWarnings(Tail(entries))
         IN  IF ~HasAttr(Head(entries), "dNSHostName")
             THEN <<<<"WARN", "LDAP_SEARCH">>>> \o rest ELSE rest

NoneFoundNever(hosts) == FALSE

\* if hosts.is_empty() { return Err("No Windows Servers found in the domain.") }
NoneFound(hosts) == hosts = <<>>

CsvCreateAppend(csv) == [exists |-> TRUE, rows |-> csv.rows]

\* csv::WriterBuilder::new().from_path("hosts.csv"): the file is created or truncated
CsvCreate(csv) == [exists |-> TRUE, rows |-> <<>>]

\* What the csv writer holds after the header and the first n records
ScanRows(hosts, n) ==
    <<Header2>> \o [i \in 1..n |-> <<hosts[i].hostname, hosts[i].description>>]

\* The writer's buffer reaches the file when it is flushed or dropped
CsvFlush(csv, rows) == [exists |-> TRUE, rows |-> csv.rows \o rows]

\* return Err(error) after debug_log("ERROR", category, ..)
ScanFail(kind, category) ==
    /\ sResult' = [kind |-> kind, count |-> 0]
    /\ sLog' = Append(sLog, <<"ERROR", category>>)
    /\ spc' = "done"

\* The command is invoked; empty arguments are refused
ScanStart ==
    \E domain \in ScanDomains, server \in ScanServers :
        /\ spc = "idle"
        /\ sArgs' = [domain |-> domain, server |-> server]
        /\ sPre' = hostsCsv
        /\ IF domain = <<>> \/ server = ""
           THEN ScanFail("ErrInvalidInput", "LDAP_SCAN")
           ELSE spc' = "connect" /\ UNCHANGED <<sResult, sLog>>
        /\ UNCHANGED <<sTrace, sCreds, sEntries, sHosts, sNext>>
        /\ UNCHANGED <<sharedVars, launchVars, parseVars>>

\* LdapConnAsync::new("ldap://<server>:389")
ScanConnect ==
    /\ spc = "connect"
    /\ \E ok \in BOOLEAN :
        IF ok
        THEN /\ sTrace' = Append(sTrace, "connected")
             /\ spc' = "credentials"
             /\ UNCHANGED <<sResult, sLog>>
        ELSE /\ ScanFail("ErrConnect", "LDAP_CONNECTION")
             /\ UNCHANGED sTrace
    /\ UNCHANGED <<sArgs, sCreds, sEntries, sHosts, sNext, sPre>>
    /\ UNCHANGED <<sharedVars, launchVars, parseVars>>

\* The credentials step preferring the per-host entry of srv1
ScanReadCredentialsPerHost ==
    /\ spc = "credentials"
    /\ LET h == get_host_credentials(store, "srv1")
           c == IF h.some THEN h ELSE get_stored_credentials(store)
       IN  IF c.some
           THEN /\ sCreds' = c /\ spc' = "bind"
                /\ UNCHANGED <<sResult, sLog>>
           ELSE /\ ScanFail("ErrNoCredentials", "CREDENTIALS")
                /\ UNCHANGED sCreds
    /\ UNCHANGED <<sArgs, sTrace, sEntries, sHosts, sNext, sPre>>
    /\ UNCHANGED <<sharedVars, launchVars, parseVars>>

\* match get_stored_credentials().await
ScanReadCredentials ==
    /\ spc = "credentials"
    /\ LET c == get_stored_credentials(store)
       IN  IF c.some
           THEN /\ sCreds' = c /\ spc' = "bind"
                /\ UNCHANGED <<sResult, sLog>>
           ELSE /\ ScanFail("ErrNoCredentials", "CREDENTIALS")
                /\ UNCHANGED sCreds
    /\ UNCHANGED <<sArgs, sTrace, sEntries, sHosts, sNext, sPre>>
    /\ UNCHANGED <<sharedVars, launchVars, parseVars>>

\* bind_dn: the stored login as it is when it has '@' or '\', else login@domain
BindDn(login, domain) ==
    IF Contains(login, AT) \/ Contains(login, BSL) THEN login ELSE login \o <<AT>> \o domain

\* match ldap.simple_bind(&bind_dn, &credentials.password).await: Err(e) fails
\* the scan; Ok(result) goes on, whatever result code the server answered
ScanBind ==
    /\ spc = "bind"
    /\ \E answer \in {"success", "rejected", "error"} :
        IF answer = "error"
        THEN /\ ScanFail("ErrBind", "LDAP_BIND")
             /\ sTrace' = Append(sTrace, "bind_error")
        ELSE /\ sTrace' = Append(sTrace, IF answer = "success" THEN "bound" ELSE "bind_rejected")
             /\ spc' = "search"
             /\ UNCHANGED <<sResult, sLog>>
    /\ UNCHANGED <<sArgs, sCreds, sEntries, sHosts, sNext, sPre>>
    /\ UNCHANGED <<sharedVars, launchVars, parseVars>>

\* match ldap.search(&base_dn, Scope::Subtree, filter, attrs).await
ScanSearch ==
    /\ spc = "search"
    /\ \/ \E entries \in ListsUpTo(EntryKinds, MaxEntries) :
             /\ sEntries' = entries
             /\ sTrace' = Append(sTrace, "searched")
             /\ spc' = "map"
             /\ UNCHANGED <<sResult, sLog>>
       \/ /\ ScanFail("ErrSearch", "LDAP_SEARCH")
          /\ sTrace' = Append(sTrace, "search_error")
          /\ UNCHANGED sEntries
    /\ UNCHANGED <<sArgs, sCreds, sHosts, sNext, sPre>>
    /\ UNCHANGED <<sharedVars, launchVars, parseVars>>

\* for entry in rs { .. }
ScanMap ==
    /\ spc = "map"
    /\ sHosts' = MapEntries(sEntries)
    /\ sLog' = sLog \o MapWarnings(sEntries)
    /\ spc' = "unbind"
    /\ UNCHANGED <<sArgs, sTrace, sCreds, sEntries, sNext, sResult, sPre>>
    /\ UNCHANGED <<sharedVars, launchVars, parseVars>>

\* let _ = ldap.unbind().await; if hosts.is_empty() { return Err(..) }
ScanUnbind ==
    /\ spc = "unbind"
    /\ sTrace' = Append(sTrace, "unbind")
    /\ IF NoneFound(sHosts)
       THEN ScanFail("ErrNoneFound", "LDAP_SEARCH")
       ELSE spc' = "csv_create" /\ UNCHANGED <<sResult, sLog>>
    /\ UNCHANGED <<sArgs, sCreds, sEntries, sHosts, sNext, sPre>>
    /\ UNCHANGED <<sharedVars, launchVars, parseVars>>

\* csv::WriterBuilder::new().from_path("hosts.csv")
ScanCsvCreate ==
    /\ spc = "csv_create"
    /\ \E ok \in BOOLEAN :
        IF ok
        THEN /\ hostsCsv' = CsvCreate(hostsCsv)
             /\ spc' = "csv_header"
             /\ UNCHANGED <<sResult, sLog>>
        ELSE /\ ScanFail("ErrCsvCreate", "CSV_OPERATIONS")
             /\ UNCHANGED hostsCsv
    /\ UNCHANGED <<sArgs, sTrace, sCreds, sEntries, sHosts, sNext, sPre>>
    /\ UNCHANGED <<store, files, recent, now, scn, launchVars, parseVars>>

\* wtr.write_record(&["hostname", "description"]); on an error the writer is
\* dropped, and dropping it flushes what it holds
ScanCsvHeader ==
    /\ spc = "csv_header"
    /\ \E ok \in BOOLEAN :
        IF ok
        THEN /\ sNext' = 1
             /\ spc' = "csv_records"
             /\ UNCHANGED <<sResult, sLog, hostsCsv>>
        ELSE /\ ScanFail("ErrCsvHeader", "CSV_OPERATIONS")
             /\ UNCHANGED <<sNext, hostsCsv>>
    /\ UNCHANGED <<sArgs, sTrace, sCreds, sEntries, sHosts, sPre>>
    /\ UNCHANGED <<store, files, recent, now, scn, launchVars, parseVars>>

\* for host in &hosts { wtr.write_record(&[&host.hostname, &host.description]) }
ScanCsvRecord ==
    /\ spc = "csv_records"
    /\ sNext <= Len(sHosts)
    /\ \E ok \in BOOLEAN :
        IF ok
        THEN /\ sNext' = sNext + 1
             /\ UNCHANGED <<spc, sResult, sLog, hostsCsv>>
        ELSE /\ ScanFail("ErrCsvRecord", "CSV_OPERATIONS")
             /\ hostsCsv' = CsvFlush(hostsCsv, ScanRows(sHosts, sNext - 1))
             /\ UNCHANGED sNext
    /\ UNCHANGED <<sArgs, sTrace, sCreds, sEntries, sHosts, sPre>>
    /\ UNCHANGED <<store, files, recent, now, scn, launchVars, parseVars>>

\* wtr.flush(); Ok(format!("Successfully found {} Windows Server(s).", hosts.len()))
ScanCsvFlush ==
    /\ spc = "csv_records"
    /\ sNext > Len(sHosts)
    /\ \E ok \in BOOLEAN :
        IF ok
        THEN /\ hostsCsv' = CsvFlush(hostsCsv, ScanRows(sHosts, Len(sHosts)))
             /\ sResult' = [kind |-> "Ok", count |-> Len(sHosts)]
             /\ spc' = "done"
             /\ UNCHANGED sLog
        ELSE /\ ScanFail("ErrCsvFlush", "CSV_OPERATIONS")
             /\ UNCHANGED hostsCsv
    /\ UNCHANGED <<sArgs, sTrace, sCreds, sEntries, sHosts, sNext, sPre>>
    /\ UNCHANGED <<store, files, recent, now, scn, launchVars, parseVars>>

\* The command has returned; the next command may start
ScanReturn ==
    /\ spc = "done"
    /\ spc' = "idle" /\ sArgs' = NoArgs /\ sTrace' = <<>> /\ sCreds' = NoCreds
    /\ sEntries' = <<>> /\ sHosts' = <<>> /\ sNext' = 0 /\ sResult' = NoResult
    /\ sLog' = <<>> /\ sPre' = NoCsv
    /\ UNCHANGED <<sharedVars, launchVars, parseVars>>

(***************************************************************************)
(* Specification of the directory scan: the scan and the inventory         *)
(* commands run one at a time; the global credential is there or not       *)
(***************************************************************************)
InitScan ==
    /\ store \in {EmptyStore, CredWrite(EmptyStore, GlobalKey, <<"u">>, <<"p">>)}
    /\ files = EmptyFiles
    /\ hostsCsv = NoCsv /\ recent = NoRecent /\ now = 0
    /\ scn = [hosts |-> {}]
    /\ LaunchIdle /\ lPrev = NoPrev
    /\ ScanIdle /\ ParseIdle

NextScan ==
    \/ (Quiet /\ ScanStart) \/ ScanConnect \/ ScanReadCredentials \/ ScanBind \/ ScanSearch
    \/ ScanMap \/ ScanUnbind \/ ScanCsvCreate \/ ScanCsvHeader \/ ScanCsvRecord
    \/ ScanCsvFlush \/ ScanReturn
    \/ (Quiet /\ SaveHost)
    \/ (Quiet /\ DeleteHost)
    \/ (Quiet /\ DeleteAllHosts)

SpecScan == InitScan /\ [][NextScan]_vars

(***************************************************************************)
(* Scans alone, from stores with and without per-host entries              *)
(***************************************************************************)
ScanStores ==
    LET global == CredWrite(EmptyStore, GlobalKey, <<"u">>, <<"p">>)
        host(st) == CredWrite(st, TermsrvKey("srv1"), <<"d", BSL, "v">>, <<"q">>)
    IN  {EmptyStore, global, host(EmptyStore), host(global)}

InitScanStores ==
    /\ store \in ScanStores
    /\ files = EmptyFiles
    /\ hostsCsv = NoCsv /\ recent = NoRecent /\ now = 0
    /\ scn = [hosts |-> {}]
    /\ LaunchIdle /\ lPrev = NoPrev
    /\ ScanIdle /\ ParseIdle

NextScanStores ==
    \/ ScanStart \/ ScanConnect \/ ScanReadCredentials \/ ScanBind \/ ScanSearch
    \/ ScanMap \/ ScanUnbind \/ ScanCsvCreate \/ ScanCsvHeader \/ ScanCsvRecord
    \/ ScanCsvFlush \/ ScanReturn

SpecScanStores == InitScanStores /\ [][NextScanStores]_vars

(***************************************************************************)
(* A launch and a scan running concurrently.  update_last_connected reads  *)
(* the inventory and writes it back in two steps, and the scan replaces    *)
(* the file in between or around them.  The scan starts once the launch    *)
(* has reached its bookkeeping; schedules in which the launch rewrites the *)
(* file while the scan holds its writer open are left out.  hIn holds the  *)
(* host list update_last_connected has in memory.                          *)
(***************************************************************************)
Inventory2 ==
    [exists |-> TRUE, rows |-> <<Header3, <<"srv1", "web", "">>, <<"old1", "old", "">>>>]

LaunchAtBookkeeping == lpc \in {"update_last", "update_write", "done"}

ScanWriterOpen == spc \in {"csv_header", "csv_records"}

\* let mut hosts = get_hosts()?; the host is looked up and stamped in memory
LaunchUpdateRead ==
    /\ lpc = "update_last"
    /\ \E readOk \in BOOLEAN :
        LET gh == get_hosts(hostsCsv)
        IN  IF readOk /\ gh.ok
               /\ \E i \in 1..Len(gh.hosts) : gh.hosts[i].hostname = lHost.hostname
            THEN /\ hIn' = MarkConnected(gh.hosts, lHost.hostname, Timestamp(now))
                 /\ lpc' = "update_write"
                 /\ UNCHANGED <<lCalls, lLog, lResult>>
            ELSE /\ lCalls' = Append(lCalls,
                                     Call("update_last_connected", lHost.hostname, FALSE, 0))
                 /\ lLog' = Append(lLog, <<"WARN", "RDP_LAUNCH">>)
                 /\ lResult' = "Ok"
                 /\ lpc' = "done"
                 /\ UNCHANGED hIn
    /\ UNCHANGED <<lHost, lCreds, lSource, lIdent, lPre, lPrev>>
    /\ UNCHANGED <<sharedVars, scanVars, ppc, pLogin, pOut, hpc, hOut>>

\* csv::Writer::from_path("hosts.csv"), the header, one record per host, flush
LaunchUpdateWrite ==
    /\ lpc = "update_write"
    /\ \E outcome \in {"ok", "create_failed", "write_failed"}, cut \in 0..1 :
        LET rows == Rows3(hIn)
        IN  /\ hostsCsv' =
                  CASE outcome = "ok" -> [exists |-> TRUE, rows |-> rows]
                    [] outcome = "create_failed" -> hostsCsv
                    [] outcome = "write_failed" ->
                         [exists |-> TRUE,
                          rows |-> SubSeq(rows, 1, IF cut < Len(rows) THEN cut ELSE 0)]
            /\ lCalls' = lCalls \o
                   <<Call("update_last_connected", lHost.hostname, outcome = "ok", 0),
                     Call("csv_write", "hosts.csv", outcome = "ok", 0)>>
            /\ lLog' = IF outcome = "ok" THEN lLog ELSE Append(lLog, <<"WARN", "RDP_LAUNCH">>)
    /\ lResult' = "Ok"
    /\ lpc' = "done"
    /\ UNCHANGED <<lHost, lCreds, lSource, lIdent, lPre, lPrev>>
    /\ UNCHANGED <<store, files, recent, now, scn, scanVars, parseVars>>

InitLaunchScan ==
    /\ store = CredWrite(EmptyStore, GlobalKey, <<"u">>, <<"p">>)
    /\ files = EmptyFiles
    /\ hostsCsv = Inventory2 /\ recent = NoRecent /\ now = 0
    /\ scn = [hosts |-> {h \in HostRecords : h.hostname = "srv1"}]
    /\ LaunchIdle /\ lPrev = NoPrev
    /\ ScanIdle /\ ParseIdle

NextLaunchScan ==
    \/ LaunchStart \/ LaunchReadHost \/ LaunchReadGlobal \/ LaunchCheckHost
    \/ LaunchProvision \/ LaunchWriteFile \/ LaunchOpen \/ LaunchRecent
    \/ LaunchUpdateRead
    \/ (~ScanWriterOpen /\ LaunchUpdateWrite)
    \/ (LaunchAtBookkeeping /\ ScanStart)
    \/ ScanConnect \/ ScanReadCredentials \/ ScanBind \/ ScanSearch
    \/ ScanMap \/ ScanUnbind \/ ScanCsvCreate \/ ScanCsvHeader \/ ScanCsvRecord
    \/ ScanCsvFlush

SpecLaunchScan == InitLaunchScan /\ [][NextLaunchScan]_vars

(***************************************************************************)
(* The search base: base_dn of scan_domain_ldap, applied to one realm      *)
(***************************************************************************)
DOT   == "."
COMMA == ","

RECURSIVE SplitSkipEmpty(_, _)
SplitSkipEmpty(s, c) ==
    IF ~Contains(s, c) THEN (IF s = <<>> THEN <<>> ELSE <<s>>)
    ELSE LET i    == FirstIndex(s, c)
             rest == SplitSkipEmpty(SubSeq(s, i + 1, Len(s)), c)
         IN  IF i = 1 THEN rest ELSE <<SubSeq(s, 1, i - 1)>> \o rest

\* str::split(c): the pieces between the occurrences of c, empty ones included
RECURSIVE Split(_, _)
Split(s, c) ==
    IF ~Contains(s, c) THEN <<s>>
    ELSE LET i == FirstIndex(s, c)
         IN  <<SubSeq(s, 1, i - 1)>> \o Split(SubSeq(s, i + 1, Len(s)), c)

\* format!("DC={}", part)
DcComponent(part) == <<"D", "C", "=">> \o part

\* [String]::join(sep)
RECURSIVE Join(_, _)
Join(parts, sep) ==
    IF parts = <<>> THEN <<>>
    ELSE IF Len(parts) = 1 THEN parts[1]
    ELSE parts[1] \o sep \o Join(Tail(parts), sep)

\* domain.split('.').map(|part| format!("DC={}", part)).collect::<Vec<String>>()
BaseDnComponents(domain) ==
    LET parts == Split(domain, DOT)
    IN  [i \in 1..Len(parts) |-> DcComponent(parts[i])]

\* .join(",")
BaseDn(domain) == Join(BaseDnComponents(domain), <<COMMA>>)

RealmAlphabet == {DOT, "a", "b"}

BaseDnStart ==
    /\ hpc = "realm"
    /\ hOut' = [components |-> BaseDnComponents(hIn), base |-> BaseDn(hIn)]
    /\ hpc' = "derived"
    /\ UNCHANGED <<hIn, ppc, pLogin, pOut, sharedVars, launchVars, scanVars>>

InitBaseDn ==
    /\ store = EmptyStore /\ files = EmptyFiles
    /\ hostsCsv = NoCsv /\ recent = NoRecent /\ now = 0
    /\ scn = [hosts |-> {}]
    /\ LaunchIdle /\ lPrev = NoPrev
    /\ ScanIdle
    /\ ppc = "off" /\ pLogin = <<>> /\ pOut = <<<<>>, <<>>>>
    /\ hpc = "realm" /\ hIn \in StringsUpTo(RealmAlphabet, MaxRealmLen) /\ hOut = <<>>

NextBaseDn == BaseDnStart

SpecBaseDn == InitBaseDn /\ [][NextBaseDn]_vars

(***************************************************************************)
(* The credential store wrappers alone: save_credentials, then a read by   *)
(* get_stored_credentials or get_host_credentials, with the answers the    *)
(* platform can give and entries other programs left in the store          *)
(***************************************************************************)
\* A code unit that is no valid UTF-16 by itself (an unpaired surrogate)
SUR == "SUR"

\* String::from_utf16 / PWSTR::to_string succeed
ValidUtf16(w) == ~Contains(w, SUR)

\* CredReadW(target, CRED_TYPE_GENERIC, 0, &mut pcred): Ok with the entry, or
\* Err: ERROR_NOT_FOUND when there is no entry, another error on a fault
CredReadW(st, key, fault) ==
    IF fault THEN [ok |-> FALSE, error |-> "ERROR_NO_SUCH_LOGON_SESSION", entry |-> NoEntry]
    ELSE IF ~st[key].present THEN [ok |-> FALSE, error |-> "ERROR_NOT_FOUND", entry |-> NoEntry]
    ELSE [ok |-> TRUE, error |-> "", entry |-> st[key]]

\* The body get_stored_credentials and get_host_credentials share: the value
\* returned for the platform's answer.  Ok(_): Err when the user name or the
\* blob is no valid UTF-16, else Ok(Some(..)); Err(_): Ok(None)
ReadCredentials(st, key, fault) ==
    LET r == CredReadW(st, key, fault)
    IN  IF ~r.ok THEN [kind |-> "None", creds |-> NoCreds]
        ELSE IF ~ValidUtf16(r.entry.username) \/ ~ValidUtf16(r.entry.blob)
        THEN [kind |-> "Err", creds |-> NoCreds]
        ELSE [kind |-> "Some", creds |-> DecodeEntry(r.entry)]

\* Accounts and secrets given to save_credentials
StoreAccounts == {<<>>, <<"u">>, <<"d", BSL, "u">>}
SecretAlphabet == {"p", NUL}

\* Entries another program wrote under the keys this program reads
ForeignEntries ==
    {[present |-> TRUE, username |-> <<"u">>, blob |-> <<SUR, NUL>>],
     [present |-> TRUE, username |-> <<SUR>>, blob |-> <<"p", NUL>>]}

StoreScopes == {GlobalKey, TermsrvKey("srv1")}

\* save_credentials(credentials): an empty username is refused
StoreSave ==
    /\ hpc = "start"
    /\ \E ok \in BOOLEAN :
        IF hIn.account # <<>> /\ ok
        THEN /\ store' = CredWrite(store, GlobalKey, hIn.account, hIn.secret)
             /\ hpc' = "saved"
        ELSE /\ UNCHANGED store
             /\ hpc' = "refused"
    /\ UNCHANGED <<hIn, hOut, ppc, pLogin, pOut>>
    /\ UNCHANGED <<files, hostsCsv, recent, now, scn, launchVars, scanVars>>

\* get_stored_credentials() or get_host_credentials(hostname)
StoreRead ==
    /\ hpc \in {"start", "saved"}
    /\ \E key \in StoreScopes, fault \in BOOLEAN :
        hOut' = [key |-> key, fault |-> fault, saved |-> hpc = "saved",
                 result |-> ReadCredentials(store, key, fault)]
    /\ hpc' = "read"
    /\ UNCHANGED <<hIn, ppc, pLogin, pOut, sharedVars, launchVars, scanVars>>

InitStore ==
    /\ \E key \in StoreScopes, entry \in ForeignEntries \cup {NoEntry} :
          store = [EmptyStore EXCEPT ![key] = entry]
    /\ files = EmptyFiles
    /\ hostsCsv = NoCsv /\ recent = NoRecent /\ now = 0
    /\ scn = [hosts |-> {}]
    /\ LaunchIdle /\ lPrev = NoPrev
    /\ ScanIdle
    /\ ppc = "off" /\ pLogin = <<>> /\ pOut = <<<<>>, <<>>>>
    /\ hpc = "start"
    /\ hIn \in [account : StoreAccounts, secret : StringsUpTo(SecretAlphabet, MaxSecretLen)]
    /\ hOut = <<>>

NextStore == StoreSave \/ StoreRead

SpecStore == InitStore /\ [][NextStore]_vars

(***************************************************************************)
(* The two ways a per-host entry comes to be, for one login: written by    *)
(* save_host_credentials, or provisioned by launch_rdp from the global     *)
(* entry; each followed by launches of the host with every platform call   *)
(* succeeding                                                              *)
(***************************************************************************)
PathHost == "srv1"

\* launch_rdp with every platform call succeeding: the credentials chosen, the
\* identity parsed, the store after the provisioning block, the file written
LaunchOutcome(st, hostname) ==
    LET hc    == get_host_credentials(st, hostname)
        gc    == get_stored_credentials(st)
        creds == IF hc.some THEN hc ELSE gc
        ident == ParseLogin(creds.username)
        st2   == IF NeedsProvision(st, hostname)
                 THEN CredWrite(st, TermsrvKey(hostname),
                                TermsrvUsername(ident[1], ident[2]), creds.password)
                 ELSE st
    IN  [ok      |-> creds.some,
         source  |-> IF hc.some THEN "host" ELSE "global",
         writes  |-> IF creds.some /\ NeedsProvision(st, hostname) THEN 1 ELSE 0,
         ident   |-> ident,
         store   |-> IF creds.some THEN st2 ELSE st,
         content |-> RdpContent(hostname, ident[2], ident[1], creds.password)]

\* save_host_credentials(host, credentials) for the login of the harness
PathSaveHost ==
    /\ hpc = "login"
    /\ store' = CredWrite(store, TermsrvKey(PathHost), HostUsername(hIn.login), hIn.secret)
    /\ hpc' = "host_saved"
    /\ UNCHANGED <<hIn, hOut, ppc, pLogin, pOut>>
    /\ UNCHANGED <<files, hostsCsv, recent, now, scn, launchVars, scanVars>>

\* save_credentials(credentials) for the login of the harness
PathSaveGlobal ==
    /\ hpc = "login"
    /\ hIn.login # <<>>
    /\ store' = CredWrite(store, GlobalKey, hIn.login, hIn.secret)
    /\ hpc' = "global_saved"
    /\ UNCHANGED <<hIn, hOut, ppc, pLogin, pOut>>
    /\ UNCHANGED <<files, hostsCsv, recent, now, scn, launchVars, scanVars>>

\* save_credentials(credentials) replacing the global entry after a launch
\* provisioned the per-host entry from it
PathReplaceGlobal ==
    /\ hpc = "global_launched"
    /\ \E login \in Logins \ {<<>>}, secret \in Secrets :
          store' = CredWrite(store, GlobalKey, login, secret)
    /\ hpc' = "global_replaced"
    /\ UNCHANGED <<hIn, hOut, ppc, pLogin, pOut>>
    /\ UNCHANGED <<files, hostsCsv, recent, now, scn, launchVars, scanVars>>

\* launch_rdp(host): the first launch after the save, then a second one
PathLaunch ==
    /\ hpc \in {"host_saved", "global_saved", "host_launched", "global_launched",
                "global_replaced"}
    /\ LET r == LaunchOutcome(store, PathHost)
       IN  /\ r.ok
           /\ store' = r.store
           /\ files' = [files EXCEPT ![RdpFileName(PathHost)] = FsWrite(@, r.content)]
           /\ hOut' = Append(hOut, [source |-> r.source, ident |-> r.ident,
                                    writes |-> r.writes,
                                    before |-> files[RdpFileName(PathHost)]])
    /\ hpc' = CASE hpc = "host_saved" -> "host_launched"
                [] hpc = "global_saved" -> "global_launched"
                [] hpc = "host_launched" -> "host_relaunched"
                [] hpc = "global_launched" -> "global_relaunched"
                [] hpc = "global_replaced" -> "replaced_relaunched"
    /\ UNCHANGED <<hIn, ppc, pLogin, pOut>>
    /\ UNCHANGED <<hostsCsv, recent, now, scn, launchVars, scanVars>>

InitPaths ==
    /\ store = EmptyStore /\ files = EmptyFiles
    /\ hostsCsv = NoCsv /\ recent = NoRecent /\ now = 0
    /\ scn = [hosts |-> {}]
    /\ LaunchIdle /\ lPrev = NoPrev
    /\ ScanIdle
    /\ ppc = "off" /\ pLogin = <<>> /\ pOut = <<<<>>, <<>>>>
    /\ hpc = "login"
    /\ hIn \in [login : StringsUpTo(ParseAlphabet, MaxLoginLen), secret : {<<"p">>}]
    /\ hOut = <<>>

NextPaths == PathSaveHost \/ PathSaveGlobal \/ PathReplaceGlobal \/ PathLaunch

SpecPaths == InitPaths /\ [][NextPaths]_vars

(***************************************************************************)
(* The recent-connections list under repeated add_connection calls,        *)
(* starting from RecentConnections::new()                                  *)
(***************************************************************************)
MaxRecorded == 7

RecentHosts == {"h1", "h2", "h3", "h4", "h5", "h6"}

\* recent.add_connection(hostname, description); hOut keeps the hostnames in
\* the order they were recorded
RecordConnection ==
    /\ hpc = "recording"
    /\ Len(hOut) < MaxRecorded
    /\ \E hostname \in RecentHosts :
          /\ recent' = [recent EXCEPT !.connections =
                            add_connection(@, hostname, "", now)]
          /\ hOut' = Append(hOut, hostname)
    /\ now' = now + 1
    /\ UNCHANGED <<hpc, hIn, ppc, pLogin, pOut>>
    /\ UNCHANGED <<store, files, hostsCsv, scn, launchVars, scanVars>>

InitRecent ==
    /\ store = EmptyStore /\ files = EmptyFiles
    /\ hostsCsv = NoCsv /\ recent = NoRecent /\ now = 0
    /\ scn = [hosts |-> {}]
    /\ LaunchIdle /\ lPrev = NoPrev
    /\ ScanIdle
    /\ ppc = "off" /\ pLogin = <<>> /\ pOut = <<<<>>, <<>>>>
    /\ hpc = "recording" /\ hIn = <<>> /\ hOut = <<>>

NextRecent == RecordConnection

SpecRecent == InitRecent /\ [][NextRecent]_vars

(***************************************************************************)
(* reset_application step by step, with its report.  hIn holds the         *)
(* enumerated keys and the APPDATA setting, hOut the report lines, the     *)
(* platform calls made and the result.                                     *)
(***************************************************************************)
ResetCall(op, target, ok) == [op |-> op, target |-> target, ok |-> ok]

\* The orders in which CredEnumerateW("TERMSRV/*") can list the entries
Enumerations(st) ==
    LET found == {k \in Keys \ {GlobalKey} : st[k].present}
    IN  {e \in [1..Cardinality(found) -> found] :
            \A i, j \in 1..Cardinality(found) : e[i] = e[j] => i = j}

ResetUnchanged == UNCHANGED <<now, scn, launchVars, scanVars, ppc, pLogin, pOut>>

\* let mut report = String::from("=== QuickRDP Application Reset ===")
ResetStart ==
    /\ hpc = "reset"
    /\ hpc' = "global"
    /\ hOut' = [report |-> <<<<"title">>>>, calls |-> <<>>, result |-> "none"]
    /\ UNCHANGED <<hIn, store, files, hostsCsv, recent>>
    /\ ResetUnchanged

\* 1. match delete_credentials().await: deleting an absent entry fails
ResetDeleteGlobal ==
    /\ hpc = "global"
    /\ \E accepted \in BOOLEAN :
          LET ok == accepted /\ store[GlobalKey].present
          IN  /\ store' = IF ok THEN CredDelete(store, GlobalKey) ELSE store
              /\ hOut' = [hOut EXCEPT
                     !.calls  = Append(@, ResetCall("CredDeleteW", GlobalKey, ok)),
                     !.report = Append(@, IF ok THEN <<"global_deleted">>
                                                ELSE <<"global_failed">>)]
    /\ hpc' = "enumerate"
    /\ UNCHANGED <<hIn, files, hostsCsv, recent>>
    /\ ResetUnchanged

\* 2. match CredEnumerateW("TERMSRV/*"): no match is an error of the call
ResetEnumerate ==
    /\ hpc = "enumerate"
    /\ \E accepted \in BOOLEAN, keys \in Enumerations(store) :
          IF accepted /\ keys # <<>>
          THEN /\ hIn' = [hIn EXCEPT !.keys = keys, !.next = 1]
               /\ hOut' = [hOut EXCEPT
                      !.calls  = Append(@, ResetCall("CredEnumerateW", "TERMSRV/*", TRUE)),
                      !.report = Append(@, <<"found", Len(keys)>>)]
               /\ hpc' = "sweep"
          ELSE /\ hOut' = [hOut EXCEPT
                      !.calls  = Append(@, ResetCall("CredEnumerateW", "TERMSRV/*", FALSE)),
                      !.report = Append(@, <<"enumerate_failed">>)]
               /\ hpc' = "files"
               /\ UNCHANGED hIn
    /\ UNCHANGED <<store, files, hostsCsv, recent>>
    /\ ResetUnchanged

\* The sweep giving up at the first refused deletion
ResetDeleteKeyAbort ==
    /\ hpc = "sweep"
    /\ hIn.next <= Len(hIn.keys)
    /\ \E ok \in BOOLEAN :
          LET key == hIn.keys[hIn.next]
          IN  /\ store' = IF ok THEN CredDelete(store, key) ELSE store
              /\ hOut' = [hOut EXCEPT
                     !.calls  = Append(@, ResetCall("CredDeleteW", key, ok)),
                     !.report = @ \o (IF ok THEN <<<<"key", key>>>>
                                            ELSE <<<<"key", key>>, <<"key_failed">>>>)]
              /\ hIn' = [hIn EXCEPT !.next = IF ok THEN @ + 1 ELSE Len(hIn.keys) + 1]
    /\ UNCHANGED <<hpc, files, hostsCsv, recent>>
    /\ ResetUnchanged

\* for i in 0..count: the name is reported, CredDeleteW is called, a failure is
\* reported and the loop goes on
ResetDeleteKey ==
    /\ hpc = "sweep"
    /\ hIn.next <= Len(hIn.keys)
    /\ \E ok \in BOOLEAN :
          LET key == hIn.keys[hIn.next]
          IN  /\ store' = IF ok THEN CredDelete(store, key) ELSE store
              /\ hOut' = [hOut EXCEPT
                     !.calls  = Append(@, ResetCall("CredDeleteW", key, ok)),
                     !.report = @ \o (IF ok THEN <<<<"key", key>>>>
                                            ELSE <<<<"key", key>>, <<"key_failed">>>>)]
    /\ hIn' = [hIn EXCEPT !.next = @ + 1]
    /\ UNCHANGED <<hpc, files, hostsCsv, recent>>
    /\ ResetUnchanged

\* report.push_str("Processed {} RDP host credentials")
ResetSweepDone ==
    /\ hpc = "sweep"
    /\ hIn.next > Len(hIn.keys)
    /\ hOut' = [hOut EXCEPT !.report = Append(@, <<"processed", Len(hIn.keys)>>)]
    /\ hpc' = "files"
    /\ UNCHANGED <<hIn, store, files, hostsCsv, recent>>
    /\ ResetUnchanged

\* 3. every .rdp file of the Connections directory is removed; failFiles are the
\* removals the platform refuses
ResetFiles ==
    /\ hpc = "files"
    /\ IF hIn.appdata
       THEN \E failFiles \in SUBSET {f \in RdpFiles : files[f].exists}, readOk \in BOOLEAN :
               IF readOk
               THEN /\ files' = [f \in RdpFiles |->
                                    IF f \in failFiles THEN files[f] ELSE NoFile]
                    /\ hOut' = [hOut EXCEPT
                           !.calls  = Append(@, ResetCall("read_dir", "Connections", TRUE)),
                           !.report = Append(@, <<"files_deleted",
                               Cardinality({f \in RdpFiles : files[f].exists} \ failFiles),
                               Cardinality(failFiles)>>)]
               ELSE /\ hOut' = [hOut EXCEPT
                           !.calls  = Append(@, ResetCall("read_dir", "Connections", FALSE)),
                           !.report = Append(@, <<"files_unreadable">>)]
                    /\ UNCHANGED files
       ELSE UNCHANGED <<files, hOut>>
    /\ hpc' = "hosts"
    /\ UNCHANGED <<hIn, store, hostsCsv, recent>>
    /\ ResetUnchanged

\* 4. match delete_all_hosts().await
ResetHosts ==
    /\ hpc = "hosts"
    /\ \E ok \in BOOLEAN :
          /\ hostsCsv' = IF ok THEN ClearedCsv ELSE hostsCsv
          /\ hOut' = [hOut EXCEPT
                 !.calls  = Append(@, ResetCall("delete_all_hosts", "hosts.csv", ok)),
                 !.report = Append(@, IF ok THEN <<"hosts_cleared">>
                                            ELSE <<"hosts_failed">>)]
    /\ hpc' = "recent"
    /\ UNCHANGED <<hIn, store, files, recent>>
    /\ ResetUnchanged

\* 5. recent_connections.json is removed when it exists
ResetRecent ==
    /\ hpc = "recent"
    /\ IF hIn.appdata
       THEN IF recent.exists
            THEN \E ok \in BOOLEAN :
                    /\ recent' = IF ok THEN NoRecent ELSE recent
                    /\ hOut' = [hOut EXCEPT
                           !.calls  = Append(@, ResetCall("remove_file", "recent", ok)),
                           !.report = Append(@, IF ok THEN <<"recent_deleted">>
                                                      ELSE <<"recent_failed">>)]
            ELSE /\ hOut' = [hOut EXCEPT !.report = Append(@, <<"recent_absent">>)]
                 /\ UNCHANGED recent
       ELSE UNCHANGED <<recent, hOut>>
    /\ hpc' = "return"
    /\ UNCHANGED <<hIn, store, files, hostsCsv>>
    /\ ResetUnchanged

\* Ok(report)
ResetReturn ==
    /\ hpc = "return"
    /\ hOut' = [hOut EXCEPT !.report = Append(@, <<"complete">>), !.result = "Ok"]
    /\ hpc' = "reset_done"
    /\ UNCHANGED <<hIn, store, files, hostsCsv, recent>>
    /\ ResetUnchanged

ResetStores ==
    LET with(st, key) == CredWrite(st, key, <<"u">>, <<"p">>)
    IN  {LET a == IF g THEN with(EmptyStore, GlobalKey) ELSE EmptyStore
             b == IF h1 THEN with(a, TermsrvKey("srv1")) ELSE a
         IN  IF h2 THEN with(b, TermsrvKey("srv2")) ELSE b :
         g \in BOOLEAN, h1 \in BOOLEAN, h2 \in BOOLEAN}

InitReset ==
    /\ store \in ResetStores
    /\ files \in {EmptyFiles,
                  [f \in RdpFiles |-> [exists |-> TRUE, content |-> <<>>]]}
    /\ hostsCsv \in {NoCsv, Inventory1}
    /\ recent \in {NoRecent,
                   [exists |-> TRUE, corrupt |-> FALSE,
                    connections |-> add_connection(<<>>, "srv1", "web", 0)]}
    /\ now = 0
    /\ scn = [hosts |-> {}]
    /\ LaunchIdle /\ lPrev = NoPrev
    /\ ScanIdle
    /\ ppc = "off" /\ pLogin = <<>> /\ pOut = <<<<>>, <<>>>>
    /\ hpc = "reset"
    /\ hIn \in [keys : {<<>>}, next : {1}, appdata : BOOLEAN]
    /\ hOut = [report |-> <<>>, calls |-> <<>>, result |-> "none"]

NextReset ==
    \/ ResetStart \/ ResetDeleteGlobal \/ ResetEnumerate \/ ResetDeleteKey
    \/ ResetSweepDone \/ ResetFiles \/ ResetHosts \/ ResetRecent \/ ResetReturn

SpecReset == InitReset /\ [][NextReset]_vars

(***************************************************************************)
(* Properties of the launch pipeline (specification Spec)                  *)
(***************************************************************************)
LaunchKey  == TermsrvKey(lHost.hostname)
LaunchFile == RdpFileName(lHost.hostname)

\* launch_rdp has written the artifact of this call
LaunchRendered ==
    \/ lpc \in {"open", "recent", "update_last"}
    \/ lpc = "done" /\ lResult \in {"Ok", "ErrOpen"}

\* launch_rdp is past its provisioning step
LaunchPastProvision ==
    \/ lpc \in {"write_file", "open", "recent", "update_last"}
    \/ lpc = "done" /\ lResult # "ErrNoCredentials"

\* The entry the spec makes authoritative for a host: TERMSRV/<hostname> when
\* it exists, the global entry otherwise
ChosenEntry(st, hostname) ==
    IF st[TermsrvKey(hostname)].present THEN st[TermsrvKey(hostname)] ELSE st[GlobalKey]

CredWrites == CallsOf(lCalls, "CredWriteW")

Recombined(login) ==
    LET id == ParseLogin(login)
    IN  IF id[1] = <<>> THEN id[2] ELSE id[1] \o <<BSL>> \o id[2]

C4_NoCredentialNoEffect ==
    (lpc # "idle" /\ ~lPre.store[LaunchKey].present /\ ~lPre.store[GlobalKey].present) =>
        /\ lpc \in {"read_host", "read_global", "done"}
        /\ lpc = "done" => lResult = "ErrNoCredentials"
        /\ lCalls = <<>>
        /\ store = lPre.store /\ files = lPre.files
        /\ recent = lPre.recent /\ hostsCsv = lPre.hostsCsv

C4_Witness ==
    /\ lpc = "done" /\ lResult = "ErrNoCredentials"
    /\ files[LaunchFile].exists /\ files[LaunchFile].content # <<>>

\* The store with every secret blanked
ErasedStore(st) == [k \in Keys |-> [st[k] EXCEPT !.blob = <<>>]]

SecretChars == UNION {{s[i] : i \in 1..Len(s)} : s \in Secrets}

\* C6: the artifact launch(h) writes is determined by the store with its
\* secrets erased (two stores that differ only in secrets give the same
\* bytes), no artifact file holds a character of a secret, and the only place
\* launch writes a secret to is the store entry TERMSRV/h.
C6_SecretNotInArtifact ==
    /\ LaunchRendered =>
          LET id == ParseLogin(ChosenEntry(ErasedStore(lPre.store), lHost.hostname).username)
          IN  files[LaunchFile] = [exists |-> TRUE,
                                   content |-> RdpTemplate(lHost.hostname, id[2], id[1])]
    /\ \A f \in RdpFiles : \A i \in 1..Len(files[f].content) :
          \A j \in 1..Len(files[f].content[i].value) :
              files[f].content[i].value[j] \notin SecretChars
    /\ \A i \in 1..Len(CredWrites) : CredWrites[i].target = LaunchKey

C6_Witness ==
    /\ LaunchRendered
    /\ lCreds.password = <<"q">>
    /\ lSource = "global"
    /\ TrimEndNul(store[LaunchKey].blob) = <<"q">>

\* C7: once launch(h) has written the artifact with identity (realm, account),
\* the file of h is one rendering and nothing else: one directive per key,
\* CRLF after each, 'full address' = h, 'username' = account, 'domain' = realm,
\* whatever the file held before (the earlier content is replaced).
C7_ArtifactOverwritten ==
    LaunchRendered =>
        LET content == files[LaunchFile].content
        IN  /\ files[LaunchFile].exists
            /\ DirectiveValues(content, "full address") = <<HostnameText(lHost.hostname)>>
            /\ DirectiveValues(content, "username") = <<lIdent[2]>>
            /\ DirectiveValues(content, "domain") = <<lIdent[1]>>
            /\ Cardinality({content[i].key : i \in 1..Len(content)}) = Len(content)
            /\ \A i \in 1..Len(content) : content[i].eol = "\r\n"
            /\ <<lIdent[1], lIdent[2]>> = ParseLogin(lCreds.username)

C7_Witness ==
    /\ LaunchRendered
    /\ lPre.files[LaunchFile].exists
    /\ lPre.files[LaunchFile].content # <<>>
    /\ lPre.files[LaunchFile].content # files[LaunchFile].content

(***************************************************************************)
(* Properties of the identity parse                                        *)
(***************************************************************************)
\* The first position of character c in text s, 0 when s has none
PositionOf(s, c) ==
    IF \E i \in 1..Len(s) : s[i] = c
    THEN CHOOSE i \in 1..Len(s) : s[i] = c /\ \A j \in 1..(i - 1) : s[j] # c
    ELSE 0

\* The reference parse of section 4.2, as (realm, account)
ReferenceParse(s) ==
    LET b == PositionOf(s, BSL)
        a == PositionOf(s, AT)
    IN  IF b > 0 THEN <<SubSeq(s, 1, b - 1), SubSeq(s, b + 1, Len(s))>>
        ELSE IF a > 0 THEN <<SubSeq(s, a + 1, Len(s)), SubSeq(s, 1, a - 1)>>
        ELSE <<<<>>, s>>

\* C5: the identity parse is total and equals the reference function: for every
\* login string the parse gives a (realm, account) pair; with a '\' the realm is
\* what precedes the first '\' and the account what follows it, whatever '@'
\* the string has; otherwise with an '@' the account is what precedes the first
\* '@' and the realm what follows it; otherwise the realm is empty and the account
\* is the whole string; the empty string gives ("", "").
C5_ParseIsReference ==
    /\ ppc = "ready" => ENABLED ParseStart
    /\ ppc = "parsed" =>
        /\ pOut = ReferenceParse(pLogin)
        /\ Contains(pLogin, BSL) =>
              /\ pLogin = pOut[1] \o <<BSL>> \o pOut[2]
              /\ ~Contains(pOut[1], BSL)
        /\ (~Contains(pLogin, BSL) /\ Contains(pLogin, AT)) =>
              /\ pLogin = pOut[2] \o <<AT>> \o pOut[1]
              /\ ~Contains(pOut[2], AT)
        /\ (~Contains(pLogin, BSL) /\ ~Contains(pLogin, AT)) => pOut = <<<<>>, pLogin>>
        /\ pLogin = <<>> => pOut = <<<<>>, <<>>>>

C5_Witness ==
    /\ ppc = "parsed"
    /\ PositionOf(pLogin, AT) > 0
    /\ PositionOf(pLogin, BSL) > PositionOf(pLogin, AT)
    /\ pOut[1] = SubSeq(pLogin, 1, PositionOf(pLogin, BSL) - 1)
    /\ Contains(pOut[1], AT)

(***************************************************************************)
(* Properties of the directory scan                                        *)
(***************************************************************************)
\* The search of this scan has answered with entries
Searched == \E i \in 1..Len(sTrace) : sTrace[i] = "searched"

\* The mapping loop of this scan has run
MappingDone == Searched /\ spc # "map"

\* The WARN lines this scan has logged
Warnings == Cardinality({i \in 1..Len(sLog) : sLog[i][1] = "WARN"})

\* The hosts hosts.csv held when the scan was invoked
HostsBefore == get_hosts(sPre).hosts

\* C8: a scan that connects, binds and searches successfully but maps zero hosts
\* returns NoneFound and never touches hosts.csv: the inventory stays what it
\* was when the scan was invoked.
C8_NoneFoundKeepsInventory ==
    (Searched /\ MapEntries(sEntries) = <<>>) =>
        /\ hostsCsv = sPre
        /\ spc \in {"map", "unbind", "done"}
        /\ spc = "done" => sResult = [kind |-> "ErrNoneFound", count |-> 0]

C8_Witness ==
    /\ spc = "done"
    /\ sResult.kind = "ErrNoneFound"
    /\ Len(sEntries) > 0
    /\ \E i \in 1..Len(HostsBefore) : HostsBefore[i].last_connected # <<>>
    /\ hostsCsv = sPre

\* C9: the mapped entries are exactly the result entries that carry a
\* DNS-hostname attribute, the scan logs one warning per skipped entry, and
\* mapped entries plus warnings equals the number of result entries.
C9_MappedPlusWarnings ==
    MappingDone =>
        /\ Len(sHosts) = Cardinality({i \in 1..Len(sEntries) :
                                         HasAttr(sEntries[i], "dNSHostName")})
        /\ Warnings = Len(sEntries) - Len(sHosts)
        /\ Len(sHosts) + Warnings = Len(sEntries)

\* C10: after a scan that returns success the inventory read back is exactly
\* the mapped hosts, in order: no host of the earlier inventory survives unless
\* the scan found it again, no host has a last_connected value, and the count
\* returned is the number of inventory entries.
C10_ScanReplacesInventory ==
    (spc = "done" /\ sResult.kind = "Ok") =>
        LET gh == get_hosts(hostsCsv)
        IN  /\ gh.ok
            /\ gh.hosts = MapEntries(sEntries)
            /\ \A i \in 1..Len(gh.hosts) :
                  /\ gh.hosts[i].last_connected = <<>>
                  /\ \E j \in 1..Len(sEntries) :
                        /\ Mapped(sEntries[j])
                        /\ gh.hosts[i].hostname = sEntries[j]["dNSHostName"][1]
            /\ sResult.count = Len(gh.hosts)
            /\ sResult.count > 0

C10_Witness ==
    /\ spc = "done" /\ sResult.kind = "Ok"
    /\ \E i \in 1..Len(HostsBefore) :
          /\ HostsBefore[i].last_connected # <<>>
          /\ \A j \in 1..Len(sHosts) : sHosts[j].hostname # HostsBefore[i].hostname
    /\ \E i \in 1..Len(HostsBefore) :
          /\ HostsBefore[i].last_connected # <<>>
          /\ \E j \in 1..Len(sHosts) : sHosts[j].hostname = HostsBefore[i].hostname
    /\ get_hosts(hostsCsv).hosts = sHosts

\* What a reader of hosts.csv (get_hosts) sees now
HostsNow == get_hosts(hostsCsv).hosts

\* C11: the scan's replacement of the inventory is atomic: in every state of a
\* scan, a reader of the inventory sees either the complete content it had when
\* the scan was invoked or the complete mapped set, also after a failure of the
\* header write, a record write or the flush; and a scan that returns an error
\* leaves hosts.csv as it was.
C11_ScanAtomic ==
    spc # "idle" =>
        /\ \/ HostsNow = HostsBefore
           \/ MappingDone /\ sHosts # <<>> /\ HostsNow = sHosts
        /\ (spc = "done" /\ sResult.kind # "Ok") => hostsCsv = sPre

(***************************************************************************)
(* Properties of the search base                                           *)
(***************************************************************************)
\* The positions of '.' in a realm
Dots(realm) == {i \in 1..Len(realm) : realm[i] = DOT}

\* The position of the k-th '.', 0 before the first and Len + 1 after the last
DotAt(realm, k) ==
    IF k = 0 THEN 0
    ELSE IF k > Cardinality(Dots(realm)) THEN Len(realm) + 1
    ELSE CHOOSE i \in Dots(realm) : Cardinality({j \in Dots(realm) : j <= i}) = k

\* The k-th label of a realm: what stands between two neighbouring dots
Label(realm, k) == SubSeq(realm, DotAt(realm, k - 1) + 1, DotAt(realm, k) - 1)

\* The realm with "DC=" in front and each '.' replaced by ",DC="
RECURSIVE DotsToDc(_)
DotsToDc(realm) ==
    IF realm = <<>> THEN <<>>
    ELSE (IF Head(realm) = DOT THEN <<COMMA, "D", "C", "=">> ELSE <<Head(realm)>>)
         \o DotsToDc(Tail(realm))

\* C12: for every realm string the search base is the comma-joined list of
\* "DC=<label>", one for each label obtained by splitting the realm on '.', in
\* order; the number of DC components is the number of '.' characters plus one.
C12_BaseDn ==
    /\ hpc = "realm" => ENABLED BaseDnStart
    /\ hpc = "derived" =>
        /\ Len(hOut.components) = Cardinality(Dots(hIn)) + 1
        /\ \A k \in 1..Len(hOut.components) :
              hOut.components[k] = <<"D", "C", "=">> \o Label(hIn, k)
        /\ hOut.base = <<"D", "C", "=">> \o DotsToDc(hIn)
        /\ Cardinality({i \in 1..Len(hOut.base) : hOut.base[i] = COMMA})
              = Cardinality(Dots(hIn))

C12_Witness ==
    /\ hpc = "derived"
    /\ hIn = <<"a", "b", DOT, "a", DOT>>
    /\ hOut.components = << <<"D", "C", "=", "a", "b">>, <<"D", "C", "=", "a">>, <<"D", "C", "=">> >>
    /\ hOut.base = <<"D", "C", "=", "a", "b", COMMA, "D", "C", "=", "a", COMMA, "D", "C", "=">>

\* A search request has been sent in this scan
SearchIssued == \E i \in 1..Len(sTrace) : sTrace[i] \in {"searched", "search_error"}

\* The server has answered the bind of this scan with a failure result code
BindRejected == \E i \in 1..Len(sTrace) : sTrace[i] = "bind_rejected"

\* C13: a scan passes Connecting, Binding, Searching in this order; a search is
\* issued only after the authenticated bind with the stored global credential
\* has succeeded in the same scan; when the global credential is missing or the
\* bind is rejected the scan fails with no search issued and the inventory
\* unchanged.
C13_SearchOnlyAfterBind ==
    /\ \A i \in 1..Len(sTrace) :
          /\ sTrace[i] = "connected" => i = 1
          /\ sTrace[i] \in {"bound", "bind_rejected", "bind_error"} =>
                i = 2 /\ sTrace[1] = "connected" /\ sCreds.some
          /\ sTrace[i] \in {"searched", "search_error"} => i = 3 /\ sTrace[2] = "bound"
    /\ BindRejected =>
          /\ ~SearchIssued
          /\ spc = "done"
          /\ sResult.kind = "ErrBind"
          /\ hostsCsv = sPre
    /\ (spc = "done" /\ sResult.kind = "ErrNoCredentials") =>
          /\ ~SearchIssued
          /\ hostsCsv = sPre

\* The connect step of this scan has succeeded
Connected == \E i \in 1..Len(sTrace) : sTrace[i] = "connected"

\* The session of this scan has been unbound
Unbound == \E i \in 1..Len(sTrace) : sTrace[i] = "unbind"

\* C14: every scan whose connect step succeeded has unbound the session when it
\* returns, whatever the outcome.
C14_UnbindBeforeReturn ==
    (spc = "done" /\ Connected) => Unbound

(***************************************************************************)
(* Properties of the launch: failures, bookkeeping and ordering            *)
(***************************************************************************)
OpenCalls == CallsOf(lCalls, "ShellExecuteW")

\* The document-open call of this launch has succeeded
Opened == \E i \in 1..Len(OpenCalls) : OpenCalls[i].ok

\* Calls of this launch, of the kinds given, that failed
FailedCalls(ops) == {i \in 1..Len(lCalls) : lCalls[i].op \in ops /\ ~lCalls[i].ok}

\* C15: once the document-open step of launch(h) has succeeded the launch
\* returns success, whatever fails in the bookkeeping after it (loading or
\* saving the recent-connections log, updating last_connected, also when h is
\* not in the inventory); a failure of credential resolution, provisioning,
\* artifact write or open always makes the launch return an error.
C15_BookkeepingNeverFatal ==
    /\ lpc \in {"recent", "update_last"} => Opened /\ lResult = "none"
    /\ lpc = "done" =>
        /\ Opened <=> lResult = "Ok"
        /\ FailedCalls({"CredWriteW", "fs_write", "ShellExecuteW"}) # {} => lResult # "Ok"
        /\ ~lCreds.some => lResult # "Ok"
        /\ lResult = "Ok" =>
              /\ Len(CallsOf(lCalls, "fs_write")) = 1
              /\ Len(OpenCalls) = 1

C15_Witness ==
    /\ lpc = "done" /\ lResult = "Ok"
    /\ FailedCalls({"save_recent"}) # {}
    /\ FailedCalls({"update_last_connected"}) # {}
    /\ \A i \in 1..Len(get_hosts(lPre.hostsCsv).hosts) :
          get_hosts(lPre.hostsCsv).hosts[i].hostname # lHost.hostname

\* The bookkeeping steps of launch_rdp
Bookkeeping == {"load_recent", "save_recent", "update_last_connected"}

\* C16: every failure in the bookkeeping after a launch is logged before it is
\* discarded: a failed load of the recent-connections log, a failed save of it
\* and a failed update of last_connected each produce one debug_log call.
C16_BookkeepingFailuresLogged ==
    (lpc = "done" /\ lResult = "Ok") =>
        /\ Len(lLog) = Cardinality(FailedCalls(Bookkeeping))
        /\ FailedCalls({"load_recent"}) # {} => Len(lLog) > 0
        /\ FailedCalls({"save_recent"}) # {} => Len(lLog) > 0
        /\ FailedCalls({"update_last_connected"}) # {} => Len(lLog) > 0

\* C17: the launch returns the open-failed error exactly when the status code
\* of ShellExecuteW is at or below 32, and then nothing is recorded in the
\* recent-connections log and last_connected is not updated; for every status
\* code above 32 the launch goes on to the bookkeeping and returns success.
C17_OpenThreshold ==
    /\ Len(OpenCalls) <= 1
    /\ lResult = "ErrOpen" => Len(OpenCalls) = 1
    /\ lpc \in {"recent", "update_last"} => Len(OpenCalls) = 1 /\ OpenCalls[1].code > 32
    /\ (lpc = "done" /\ Len(OpenCalls) = 1) =>
        LET code == OpenCalls[1].code
        IN  /\ code <= 32 <=> lResult = "ErrOpen"
            /\ code <= 32 =>
                  /\ recent = lPre.recent
                  /\ hostsCsv = lPre.hostsCsv
                  /\ \A i \in 1..Len(lCalls) :
                        lCalls[i].op \notin Bookkeeping \cup {"csv_write"}
            /\ code > 32 =>
                  /\ lResult = "Ok"
                  /\ Len(CallsOf(lCalls, "load_recent")) = 1
                  /\ Len(CallsOf(lCalls, "update_last_connected")) = 1

C17_Witness ==
    /\ lpc = "done" /\ lResult = "ErrOpen"
    /\ OpenCalls[1].code = 32
    /\ lPre.recent.exists
    /\ recent = lPre.recent

\* C18: on the global-fallback path the write of TERMSRV/h comes before the
\* artifact is written and before the document-open call; when that write
\* fails the launch returns an error with no artifact written and no open
\* call; and whenever open has been invoked TERMSRV/h exists.
C18_ProvisionBeforeArtifact ==
    /\ (lpc # "idle" /\ lSource = "global" /\ ~lPre.store[LaunchKey].present) =>
        /\ \A j \in 1..Len(lCalls) :
              lCalls[j].op \in {"fs_write", "ShellExecuteW"} =>
                  \E i \in 1..(j - 1) :
                      /\ lCalls[i] = Call("CredWriteW", LaunchKey, TRUE, 0)
        /\ lpc \in {"open", "recent", "update_last"} => Len(CredWrites) = 1 /\ CredWrites[1].ok
        /\ FailedCalls({"CredWriteW"}) # {} =>
              /\ lpc = "done"
              /\ lResult = "ErrSaveRdpCredentials"
              /\ files = lPre.files
              /\ CallsOf(lCalls, "fs_write") = <<>>
              /\ OpenCalls = <<>>
    /\ (lpc = "open" \/ Len(OpenCalls) > 0) =>
          /\ store[LaunchKey].present
          /\ get_host_credentials(store, lHost.hostname).some

C18_Witness ==
    /\ lpc = "done" /\ Opened
    /\ lSource = "global"
    /\ ~lPre.store[LaunchKey].present
    /\ store[LaunchKey].present
    /\ lCalls[1] = Call("CredWriteW", LaunchKey, TRUE, 0)
    /\ lCalls[2].op = "fs_write"
    /\ lCalls[3].op = "ShellExecuteW"

(***************************************************************************)
(* Properties of the credential store wrappers                             *)
(***************************************************************************)
\* The entry under the key that was read is one the decoding cannot take
Malformed(entry) == ~ValidUtf16(entry.username) \/ ~ValidUtf16(entry.blob)

\* C19: a read of the secret store returns None exactly when no entry exists
\* under the scope key; a platform failure for any other reason, and a failure
\* to decode the stored account or secret, is returned as an error, never as
\* None.
C19_NoneOnlyWhenAbsent ==
    hpc = "read" =>
        LET entry == store[hOut.key]
        IN  /\ hOut.result.kind = "None" <=> (~entry.present /\ ~hOut.fault)
            /\ hOut.fault => hOut.result.kind = "Err"
            /\ (~hOut.fault /\ entry.present /\ Malformed(entry)) => hOut.result.kind = "Err"

\* C20: for every non-empty account a and every secret s, the empty secret and
\* secrets containing or ending with a zero code unit included,
\* save_credentials(a, s) followed by get_stored_credentials returns exactly
\* (a, s), and the stored blob is 2 x (code units of s + 1) bytes.
C20_SaveReadRoundTrip ==
    (hpc = "read" /\ hOut.saved /\ hOut.key = GlobalKey /\ ~hOut.fault) =>
        /\ hOut.result = [kind |-> "Some",
                          creds |-> [some |-> TRUE, username |-> hIn.account,
                                     password |-> hIn.secret]]
        /\ BlobSize(store[GlobalKey]) = 2 * (Len(hIn.secret) + 1)

(***************************************************************************)
(* Properties of the two credential paths                                  *)
(***************************************************************************)
\* The combined form of a login: realm\account, the account alone when the
\* realm is empty
CombinedForm(login) ==
    LET id == ReferenceParse(login)
    IN  IF id[1] # <<>> THEN id[1] \o <<BSL>> \o id[2] ELSE id[2]

\* C21: for every login L and host h, TERMSRV/h holds the combined
\* realm\account form of L whether save_host_credentials(h, L) wrote it or
\* launch provisioned it from a global credential L, and the launch of h has the
\* same identity (the 'username' and 'domain' directives) on both paths.
C21_PathsConsistent ==
    (hpc \in {"host_launched", "global_launched"} /\ hIn.login # <<>>) =>
        /\ store[TermsrvKey(PathHost)].username = CombinedForm(hIn.login)
        /\ hOut[1].ident = ReferenceParse(hIn.login)
        /\ DirectiveValues(files[RdpFileName(PathHost)].content, "username")
              = <<ReferenceParse(hIn.login)[2]>>
        /\ DirectiveValues(files[RdpFileName(PathHost)].content, "domain")
              = <<ReferenceParse(hIn.login)[1]>>

\* C26: launch is idempotent on the artifact: for every global login and a host
\* with no per-host entry, two consecutive successful launches with no
\* credential change in between write the same artifact content; parsing the
\* account the first launch provisioned under TERMSRV/h yields the same
\* (realm, account) as parsing the global login.
C26_LaunchIdempotent ==
    hpc = "global_relaunched" =>
        /\ hOut[1].source = "global" /\ hOut[2].source = "host"
        /\ hOut[2].ident = hOut[1].ident
        /\ ParseLogin(store[TermsrvKey(PathHost)].username) = ParseLogin(hIn.login)
        /\ files[RdpFileName(PathHost)] = hOut[2].before

(***************************************************************************)
(* Properties of the recent-connections list                               *)
(***************************************************************************)
RecentNames == [i \in 1..Len(recent.connections) |-> recent.connections[i].hostname]

\* The distinct hostnames of a history, most recently recorded first
RECURSIVE MostRecentFirst(_)
MostRecentFirst(history) ==
    IF history = <<>> THEN <<>>
    ELSE LET last == history[Len(history)]
             rest == SelectSeq(SubSeq(history, 1, Len(history) - 1),
                               LAMBDA h : h # last)
         IN  <<last>> \o MostRecentFirst(rest)

FirstN(seq, n) == IF Len(seq) > n THEN SubSeq(seq, 1, n) ELSE seq

\* C22: after any sequence of add_connection calls from an empty log the list
\* has at most 5 entries, has no hostname twice, and lists the most recently
\* recorded distinct hostnames most recent first: the last recorded hostname is
\* at index 0 and re-recording a hostname moves it to the front.
C22_RecentList ==
    hpc = "recording" =>
        /\ Len(recent.connections) <= 5
        /\ Cardinality({RecentNames[i] : i \in 1..Len(RecentNames)}) = Len(RecentNames)
        /\ RecentNames = FirstN(MostRecentFirst(hOut), 5)
        /\ hOut # <<>> => RecentNames[1] = hOut[Len(hOut)]

\* Six distinct hostnames were recorded, which dropped the first from the list,
\* and then the second was recorded again
C22_Witness ==
    /\ hpc = "recording"
    /\ Len(hOut) = 7
    /\ Cardinality({hOut[i] : i \in 1..6}) = 6
    /\ hOut[7] = hOut[2]
    /\ Len(recent.connections) = 5
    /\ \A i \in 1..5 : recent.connections[i].hostname # hOut[1]

(***************************************************************************)
(* Properties of the scan's use of the credential store                    *)
(***************************************************************************)
\* The store with every per-host entry removed
WithoutPerHost(st) == [k \in Keys |-> IF k = GlobalKey THEN st[k] ELSE NoEntry]

\* C23: a directory scan never uses per-host credentials and never changes the
\* secret store: the credentials it binds with are the decoded global entry,
\* the same as if no TERMSRV/ entry existed; it fails for want of credentials
\* exactly when the global entry is absent; and no step writes or deletes a
\* scope key.
C23_ScanGlobalOnly ==
    /\ [](/\ sCreds.some =>
               /\ store[GlobalKey].present
               /\ sCreds = DecodeEntry(store[GlobalKey])
               /\ sCreds = get_stored_credentials(WithoutPerHost(store))
          /\ (spc = "done" /\ sResult.kind = "ErrNoCredentials") =>
               ~store[GlobalKey].present
          /\ (spc \in {"bind", "search", "map", "unbind"}) => sCreds.some)
    /\ [][store' = store]_vars

\* A scan has returned success from a store whose per-host entry differs from
\* the global entry
C23_Witness ==
    /\ spc = "done" /\ sResult.kind = "Ok"
    /\ sCreds.some
    /\ store[TermsrvKey("srv1")].present
    /\ DecodeEntry(store[TermsrvKey("srv1")]) # DecodeEntry(store[GlobalKey])

\* C24: inventory key invariant: in every state reached by save_host,
\* delete_host, delete_all_hosts and scans, with no command in progress, no two
\* inventory entries have the same hostname and no entry has an empty hostname.
C24_InventoryKey ==
    spc \in {"idle", "done"} =>
        /\ \A i, j \in 1..Len(HostsNow) :
              HostsNow[i].hostname = HostsNow[j].hostname => i = j
        /\ \A i \in 1..Len(HostsNow) : HostsNow[i].hostname # ""

(***************************************************************************)
(* Properties of reset_application                                         *)
(***************************************************************************)
ResetCallsOn(op, target) ==
    SelectSeq(hOut.calls, LAMBDA c : c.op = op /\ c.target = target)

ResetCallsOf(op) == SelectSeq(hOut.calls, LAMBDA c : c.op = op)

ReportHas(line) == \E i \in 1..Len(hOut.report) : hOut.report[i] = line

\* The report names the key and the next line says its deletion failed
ReportsKeyFailure(key) ==
    \E i \in 1..(Len(hOut.report) - 1) :
        hOut.report[i] = <<"key", key>> /\ hOut.report[i + 1] = <<"key_failed">>

Enumerated == ResetCallsOf("CredEnumerateW") # <<>> /\ ResetCallsOf("CredEnumerateW")[1].ok

C27_WriteIffGlobalChosen ==
    /\ LaunchPastProvision => (lSource = "global" <=> CredWrites # <<>>)
    /\ (lpc = "open" /\ lSource = "global") =>
          /\ store[LaunchKey].present
          /\ store[LaunchKey].username = TermsrvUsername(lIdent[1], lIdent[2])

HostnamesOf(hosts) == [i \in 1..Len(hosts) |-> hosts[i].hostname]

C29_ProvisionedCopySticky ==
    hpc = "replaced_relaunched" =>
        /\ hOut[1].source = "global" /\ hOut[1].writes = 1
        /\ hOut[2].source = "host" /\ hOut[2].writes = 0
        /\ store[TermsrvKey(PathHost)].username = CombinedForm(hIn.login)
        /\ hOut[2].ident = ReferenceParse(hIn.login)
        /\ files[RdpFileName(PathHost)] = hOut[2].before

(***************************************************************************)
(* The frame of launch_rdp                                                 *)
(***************************************************************************)
HostsAtStart == get_hosts(lPre.hostsCsv).hosts

\* The two host lists differ at most in the last_connected field of entries
\* named hostname
SameButLastConnected(before, after, hostname) ==
    /\ Len(after) = Len(before)
    /\ \A i \in 1..Len(before) :
          /\ after[i].hostname = before[i].hostname
          /\ after[i].description = before[i].description
          /\ before[i].hostname # hostname => after[i].last_connected = before[i].last_connected

\* C30: frame of launch(h): it never writes or deletes the global scope key,
\* never writes or deletes TERMSRV/h' for another host h', never changes the
\* artifact of another host, and changes in the inventory at most the
\* last_connected field of the entry whose hostname is h: hostnames,
\* descriptions and the set of entries stay, and an absent host is not added.
C30_LaunchFrame ==
    lpc # "idle" =>
        /\ store[GlobalKey] = lPre.store[GlobalKey]
        /\ \A k \in Keys \ {GlobalKey, LaunchKey} : store[k] = lPre.store[k]
        /\ \A c \in 1..Len(lCalls) :
              lCalls[c].op = "CredWriteW" => lCalls[c].target = LaunchKey
        /\ \A f \in RdpFiles \ {LaunchFile} : files[f] = lPre.files[f]
        /\ get_hosts(hostsCsv).ok
        /\ SameButLastConnected(HostsAtStart, HostsNow, lHost.hostname)

====
